---- MODULE Spec2Model ----
(***************************************************************************)
(* git-contrib: commit aggregation and calendar layout (package stats).    *)
(*                                                                         *)
(* A time.Time is a record [day, hour, off]: the civil day number (days    *)
(* since 1970-01-01) and hour of day read in the value's own location, and *)
(* the location: off = 0 is time.Local, any other a location of fixed UTC  *)
(* offset, off hours east of the machine's standard time.                  *)
(***************************************************************************)
EXTENDS Integers, Sequences, FiniteSets, TLC

VARIABLES
  now,              \* the wall clock: what time.Now() returns
  email,            \* Stats' email argument, the author filter
  showCommitCount,  \* Stats' showCommitCount argument
  showDaysOfMonth,  \* Stats' showDaysOfMonth argument
  repo,             \* the repository at Stats' directory argument
  pc,               \* where the run stands
  n,                \* how many commits the log iterator has yielded
  cur,              \* the commit last handed to the callback, if any
  daysAgo,          \* the last result of a direct CountDaysSinceDate call
  commits,          \* the count map: day bucket key -> commits
  err,              \* whether Stats returns an error
  grid,             \* the grid BuildCols returned: week index -> Column
  params,           \* what calculateGraphParameters returned
  out,              \* the cells printed, row by row
  dotfile,          \* legacy: the repositories listed in the dotfile, in order
  ri,               \* legacy: the position in dotfile of the repository in hand
  directory,        \* Stats' directory argument, the path of repo
  errMsg,           \* the text of the error Stats returned, if any
  header,           \* the month header printed, group by group
  selfFlag,         \* the command's --self flag
  console,          \* what the command itself wrote: [stdout, stderr]
  exit,             \* the exit status of the process, once it has ended
  file,             \* what the file system holds at ParseFileLines' filePath
  scanner,          \* ParseFileLines' scanner: the bytes it has consumed
  lines,            \* ParseFileLines' slice of lines, its result in the end
  calls,            \* the newRepos of every AddElementsToFile call so far
  tree,             \* the directories under the folder ScanGitFolders scans
  folders,          \* ScanGitFolders' folders argument and then its result
  ret,              \* what the last direct call of a clock function returned
  zone              \* the machine's time zone, time.Local

vars == <<now, email, showCommitCount, showDaysOfMonth, repo, pc, n, cur,
          daysAgo, commits, err, grid, params, out, dotfile, ri, directory,
          errMsg, header, selfFlag, console, exit, file, scanner, lines,
          calls, tree, folders, ret, zone>>

\* the state of the command around Stats
cmdvars == <<selfFlag, console, exit>>

\* the state of ParseFileLines
fsvars == <<file, scanner, lines>>

\* the state of the scan command
scanvars == <<calls, tree, folders>>

----------------------------------------------------------------------------
(* Program constants.                                                      *)

OutOfRange == 99999
DaysInLastSixMonths == 183
WeeksInLastSixMonths == 26
HoursInDay == 24
DaysInWeek == 7

----------------------------------------------------------------------------
(* Bounds of the model.                                                    *)

\* number of consecutive current dates explored, from FirstDay on
NumDays == 400
\* commits a repository log yields at most when its content is left open
MaxCommits == 2
\* oldest commit age (in calendar days) drawn for the clock functions
MaxAge == 186
\* furthest future commit (in calendar days) drawn for the clock functions
MaxFuture == 2
\* largest UTC-offset distance (hours) between a commit and the local zone
MaxOffset == 1

----------------------------------------------------------------------------
(* The time package, as far as the program uses it.                        *)

\* Statement sequencing: v is computed first, then Op on its value.
Then(v, Op(_)) == CHOOSE r \in {Op(x) : x \in {v}} : TRUE

\* Go's integer conversion int(x / y) of a float quotient: truncation
\* toward zero.
TruncDiv(a, b) == IF a >= 0 THEN a \div b ELSE -((-a) \div b)

\* Days since 1970-01-01 of the proleptic Gregorian date y-m-d (1 <= m <= 12).
DaysFromCivil(y, m, d) ==
  LET yy  == IF m <= 2 THEN y - 1 ELSE y
      era == yy \div 400
      yoe == yy - era * 400
      mp  == IF m > 2 THEN m - 3 ELSE m + 9
      doy == (153 * mp + 2) \div 5 + d - 1
      doe == yoe * 365 + yoe \div 4 - yoe \div 100 + doy
  IN  era * 146097 + doe - 719468

\* The date [y, m, d] of a civil day number.
CivilFromDays(z) ==
  LET zz  == z + 719468
      era == zz \div 146097
      doe == zz - era * 146097
      yoe == (doe - doe \div 1460 + doe \div 36524 - doe \div 146096) \div 365
      doy == doe - (365 * yoe + yoe \div 4 - yoe \div 100)
      mp  == (5 * doy + 2) \div 153
      d   == doy - (153 * mp + 2) \div 5 + 1
      m   == IF mp < 10 THEN mp + 3 ELSE mp - 9
      y   == yoe + era * 400 + (IF m <= 2 THEN 1 ELSE 0)
  IN  [y |-> y, m |-> m, d |-> d]

\* time.Date(y, m, d, ...): month and day values outside their ranges are
\* normalised (October 32 becomes November 1, month 0 is last December).
Date(y, m, d, hour, off) ==
  LET m0 == m - 1
      ny == y + m0 \div 12
      nm == (m0 % 12) + 1
  IN  [day |-> DaysFromCivil(ny, nm, 1) + (d - 1), hour |-> hour, off |-> off]

\* t.AddDate(0, months, days): time.Date of t's date with the months and
\* days added, normalised.  With months = 0 that is the civil day `days`
\* later, whatever the month lengths in between.
AddDate(t, months, days) ==
  IF months = 0
    THEN [day |-> t.day + days, hour |-> t.hour, off |-> t.off]
    ELSE LET c == CivilFromDays(t.day)
         IN  Date(c.y, c.m + months, c.d + days, t.hour, t.off)

\* t.Weekday(): Sunday = 0 ... Saturday = 6 (1970-01-01 was a Thursday).
Weekday(t) == (t.day + 4) % 7

\* t.Day(): the day of the month.
DayOfMonth(t) == CivilFromDays(t.day).d

\* t.Month()
Month(t) == CivilFromDays(t.day).m

\* The machine's zone keeps one UTC offset all year, or it has summer time:
\* the clocks go from 02:00 to 03:00 on the last Sunday of March and from
\* 03:00 back to 02:00 on the last Sunday of October.
FixedZone == "fixed"
SummerZone == "summer"
Zones == {FixedZone, SummerZone}

\* the civil day number of the last Sunday of month m (of 31 days) of year y
LastSunday(y, m) ==
  LET last == DaysFromCivil(y, m, 31)
  IN  last - ((last + 4) % 7)

\* the summer times of the years the model's dates fall in
SummerTimes ==
  {[from |-> LastSunday(y, 3), to |-> LastSunday(y, 10)] : y \in 2022..2025}

\* Whether t, a time of time.Local, is in summer time.
InSummer(t) ==
  \E s \in SummerTimes :
    /\ s.from < t.day \/ (s.from = t.day /\ t.hour >= 3)
    /\ t.day < s.to \/ (t.day = s.to /\ t.hour < 3)

\* The UTC offset of t, in hours east of the machine's standard time: that
\* of its location, and for time.Local one hour more in summer time.
Offset(t) ==
  IF t.off = 0 /\ zone = SummerZone /\ InSummer(t) THEN 1 ELSE t.off

\* The instant of t, in hours on the time line of the machine's standard
\* time.
Instant(t) == t.day * 24 + t.hour - Offset(t)

\* a.Sub(b).Hours()
SubHours(a, b) == Instant(a) - Instant(b)

\* a.Before(b)
Before(a, b) == Instant(a) < Instant(b)

----------------------------------------------------------------------------
(* Calendar clock.                                                         *)

\* time.Date(year, month, day, 0, 0, 0, 0, loc) of a date c = [y, m, d] and a
\* location of offset off
DateOf(c, off) == Date(c.y, c.m, c.d, 0, off)

\* GetBeginningOfDay reading the date in the machine's zone.
GetBeginningOfDayLocal(t) ==
  DateOf(CivilFromDays(Instant(t) \div HoursInDay), t.off)

\* GetBeginningOfDay(t): year, month, day := t.Date(), then
\* time.Date(year, month, day, 0, 0, 0, 0, t.Location()).
GetBeginningOfDay(t) == DateOf(CivilFromDays(t.day), t.off)

\* CountDaysSinceDate(date), with clock the value time.Now() returns.
CountDaysSinceDate(date, clock) ==
  LET d0   == GetBeginningOfDay(date)
      now0 == GetBeginningOfDay(clock)
      days == TruncDiv(SubHours(now0, d0), HoursInDay)
  IN  IF days > DaysInLastSixMonths THEN OutOfRange ELSE days

\* CalculateWeekdayOffset(), with clock the value time.Now() returns.
CalculateWeekdayOffset(clock) ==
  LET weekday == Weekday(clock)
  IN  CASE weekday = 0 -> 0
        [] weekday = 1 -> 1
        [] weekday = 2 -> 2
        [] weekday = 3 -> 3
        [] weekday = 4 -> 4
        [] weekday = 5 -> 5
        [] weekday = 6 -> 6
        [] OTHER -> 0

----------------------------------------------------------------------------
(* Go maps and slices.                                                     *)

\* m[k] of a Go map: the zero value when the key is absent.
MapGet(m, k) == IF k \in DOMAIN m THEN m[k] ELSE 0

\* m[k] = v of a Go map: the key is created on demand.
MapPut(m, k, v) == (k :> v) @@ m

\* the nil map
NilMap == <<>>

MinOf(S) == CHOOSE x \in S : \A y \in S : x <= y
MaxOf(S) == -MinOf({-x : x \in S})

----------------------------------------------------------------------------
(* Commit aggregator.                                                      *)

\* The callback without the author filter.
ForEachCallbackAnyAuthor(e, c, m, clock) ==
  LET d == CountDaysSinceDate(c.when, clock)
  IN  IF d /= OutOfRange THEN MapPut(m, d, MapGet(m, d) + 1) ELSE m

\* One call of the callback GetCommitsFromRepo hands to iterator.ForEach:
\* the count map after commit c, under filter e and clock.
ForEachCallback(e, c, m, clock) ==
  IF e /= "" /\ c.email /= e
    THEN m
    ELSE LET d == CountDaysSinceDate(c.when, clock)
         IN  IF d /= OutOfRange THEN MapPut(m, d, MapGet(m, d) + 1) ELSE m

\* The errors of GetCommitsFromRepo, as the pieces of their text: git.PlainOpen
\* failed on path, repo.Head failed, repo.Log failed.
OpenError(path) ==
  <<"failed to open repository at ", path, ": ", "repository does not exist">>
HeadError == <<"failed to get HEAD reference: ", "reference not found">>
LogError == <<"failed to get commit log: ", "object not found">>

\* what GetCommitsFromRepo returns as error for each step that may fail
GetCommitsFromRepoError(step, path) ==
  CASE step = "open" -> OpenError(path)
    [] step = "head" -> HeadError
    [] OTHER         -> LogError

\* The wrapping without the directory.
ProcessRepositoriesErrorNoPath(dir, inner) ==
  <<"error processing repository: ">> \o inner

\* ProcessRepositories wraps the error of GetCommitsFromRepo.
ProcessRepositoriesError(dir, inner) ==
  <<"error processing repository at ", dir, ": ">> \o inner

\* The map ProcessRepositories starts from: zero for every day 183 .. 1.
InitialCommits == [i \in 1..DaysInLastSixMonths |-> 0]

----------------------------------------------------------------------------
(* Grid builder.                                                           *)

\* SortMapIntoSlice(m): the keys of m in ascending order.
SortMapIntoSlice(m) ==
  IF DOMAIN m = {} THEN <<>>
  ELSE LET lo == MinOf(DOMAIN m)
           hi == MaxOf(DOMAIN m)
       IN  SelectSeq([i \in 1..(hi - lo + 1) |-> lo + i - 1],
                     LAMBDA k : k \in DOMAIN m)

\* startDate and startOfFirstWeek, as BuildCols, calculateGraphParameters
\* and PrintMonths each compute them from time.Now().
StartDate(clock) == AddDate(GetBeginningOfDay(clock), -6, 0)

StartOfFirstWeek(clock) ==
  LET startDate == StartDate(clock)
      daysToStartSunday == Weekday(startDate)
  IN  AddDate(startDate, 0, -daysToStartSunday)

\* The week index BuildCols and calculateGraphParameters give a date:
\* WeeksInLastSixMonths less the whole weeks since startOfFirstWeek.
WeekOf(date, startOfFirstWeek) ==
  LET weeksSinceStart ==
        TruncDiv(SubHours(date, startOfFirstWeek), HoursInDay * DaysInWeek)
  IN  WeeksInLastSixMonths - weeksSinceStart

\* One pass of the body of BuildCols' loop, for key k.
BuildColsStep(k, m, today, startDate, startOfFirstWeek, weekDayCommits) ==
  LET date == AddDate(today, 0, -k)
  IN  IF Before(date, startDate)
        THEN weekDayCommits
        ELSE LET dayInWeek == Weekday(date)
                 week      == WeekOf(date, startOfFirstWeek)
                 days      == IF week \in DOMAIN weekDayCommits
                                THEN weekDayCommits[week] ELSE <<>>
                 days2     == MapPut(days, dayInWeek,
                                     MapGet(days, dayInWeek) + MapGet(m, k))
             IN  MapPut(weekDayCommits, week, days2)

\* BuildCols' loop over keys[lo .. hi], in order, starting from
\* weekDayCommits (the range is halved to keep the evaluation shallow; the
\* keys are still visited left to right, each pass on the result of the
\* one before).
RECURSIVE BuildColsLoop(_, _, _, _, _, _, _, _)
BuildColsLoop(keys, m, today, startDate, startOfFirstWeek, lo, hi, weekDayCommits) ==
  IF lo > hi THEN weekDayCommits
  ELSE IF lo = hi
    THEN BuildColsStep(keys[lo], m, today, startDate, startOfFirstWeek,
                       weekDayCommits)
    ELSE LET mid == (lo + hi) \div 2
         IN  Then(BuildColsLoop(keys, m, today, startDate, startOfFirstWeek,
                                lo, mid, weekDayCommits),
                  LAMBDA w : BuildColsLoop(keys, m, today, startDate,
                                           startOfFirstWeek, mid + 1, hi, w))

\* BuildCols(keys, commits): week index -> Column, a 7-element slice
\* indexed 0 .. 6.
BuildCols(keys, m, clock) ==
  Then(<<GetBeginningOfDay(clock), StartDate(clock), StartOfFirstWeek(clock)>>,
       LAMBDA at :
         Then(BuildColsLoop(keys, m, at[1], at[2], at[3], 1, Len(keys), <<>>),
              LAMBDA weekDayCommits :
                [week \in DOMAIN weekDayCommits |->
                   [day \in 0..6 |-> MapGet(weekDayCommits[week], day)]]))

\* calculateGraphParameters without the floor of WeeksInLastSixMonths.
calculateGraphParametersNoFloor(cols, clock) ==
  LET today            == GetBeginningOfDay(clock)
      startOfFirstWeek == StartOfFirstWeek(clock)
      todayWeek        == WeekOf(today, startOfFirstWeek)
      above            == {w \in DOMAIN cols : w > 0}
      maxWeek          == IF above = {} THEN 0 ELSE MaxOf(above)
  IN  [startOfFirstWeek |-> startOfFirstWeek,
       todayWeek |-> todayWeek, maxWeek |-> maxWeek]

\* calculateGraphParameters(cols)
calculateGraphParameters(cols, clock) ==
  LET today            == GetBeginningOfDay(clock)
      startOfFirstWeek == StartOfFirstWeek(clock)
      todayWeek        == WeekOf(today, startOfFirstWeek)
      above            == {w \in DOMAIN cols : w > 0}
      maxWeek0         == IF above = {} THEN 0 ELSE MaxOf(above)
      maxWeek          == IF maxWeek0 < WeeksInLastSixMonths
                            THEN WeeksInLastSixMonths ELSE maxWeek0
  IN  [startOfFirstWeek |-> startOfFirstWeek,
       todayWeek |-> todayWeek, maxWeek |-> maxWeek]

----------------------------------------------------------------------------
(* Graph renderer.                                                         *)

\* The escape sequences of PrintCell, after the leading ESC [.
EscapeNone   == "0;37;48;5;248m"
EscapeLight  == "1;30;48;5;120m"
EscapeMedium == "1;30;48;5;34m"
EscapeHigh   == "1;30;48;5;22m"
EscapeToday  == "1;37;45m"

\* fmt.Sprintf(" %d ", v) for v < 10, fmt.Sprintf("%d ", v) otherwise
PadNumber(v) == IF v < 10 THEN " " \o ToString(v) \o " " ELSE ToString(v) \o " "

\* PrintCell showing a count of zero as well, and the count in place of the
\* day of the month on cells with commits.
PrintCellShowsZero(val, today, date, showCount, showDays) ==
  LET escape0 == CASE val > 0 /\ val < 5   -> EscapeLight
                   [] val >= 5 /\ val < 10 -> EscapeMedium
                   [] val >= 10            -> EscapeHigh
                   [] OTHER                -> EscapeNone
      escape  == IF today THEN EscapeToday ELSE escape0
      content0 == IF showCount THEN PadNumber(val) ELSE "   "
      content  == IF showDays /\ val = 0 THEN PadNumber(DayOfMonth(date)) ELSE content0
  IN  [val |-> val, today |-> today, date |-> date.day,
       escape |-> escape, content |-> content]

\* PrintCell with the medium style starting at 4 and the today style only
\* on cells with commits.
PrintCellShifted(val, today, date, showCount, showDays) ==
  LET escape0 == CASE val > 0 /\ val < 4   -> EscapeLight
                   [] val >= 4 /\ val < 10 -> EscapeMedium
                   [] val >= 10            -> EscapeHigh
                   [] OTHER                -> EscapeNone
      escape  == IF today /\ val > 0 THEN EscapeToday ELSE escape0
      content0 == IF showCount /\ val > 0 THEN PadNumber(val) ELSE "   "
      content  == IF showDays THEN PadNumber(DayOfMonth(date)) ELSE content0
  IN  [val |-> val, today |-> today, date |-> date.day,
       escape |-> escape, content |-> content]

\* PrintCell(val, today, date, showCommitCount, showDaysOfMonth): what it
\* prints, as the escape sequence and the cell content.
PrintCell(val, today, date, showCount, showDays) ==
  LET escape0 == CASE val > 0 /\ val < 5   -> EscapeLight
                   [] val >= 5 /\ val < 10 -> EscapeMedium
                   [] val >= 10            -> EscapeHigh
                   [] OTHER                -> EscapeNone
      escape  == IF today THEN EscapeToday ELSE escape0
      content0 == IF showCount /\ val > 0 THEN PadNumber(val) ELSE "   "
      content  == IF showDays THEN PadNumber(DayOfMonth(date)) ELSE content0
  IN  [val |-> val, today |-> today, date |-> date.day,
       escape |-> escape, content |-> content]

\* printCellForPosition(cols, weekNum, dayNum, todayWeek, cellDate, ...)
printCellForPosition(cols, weekNum, dayNum, todayWeek, cellDate, showCount, showDays, clock) ==
  LET isToday == weekNum = todayWeek /\ dayNum = CalculateWeekdayOffset(clock)
      commitCount == IF weekNum \in DOMAIN cols /\ Cardinality(DOMAIN cols[weekNum]) > dayNum
                       THEN cols[weekNum][dayNum] ELSE 0
  IN  PrintCell(commitCount, isToday, cellDate, showCount, showDays)

\* printWeekRow(cols, dayNum, startOfFirstWeek, todayWeek, maxWeek, ...):
\* the cells of one row in printing order, weekNum = maxWeek down to 0
\* (the day label of weekNum = maxWeek + 1 goes before them).
printWeekRow(cols, dayNum, startOfFirstWeek, todayWeek, maxWeek, showCount, showDays, clock) ==
  [p \in 1..(maxWeek + 1) |->
     LET weekNum    == maxWeek + 1 - p
         weekOffset == WeeksInLastSixMonths - weekNum
         cellDate   == AddDate(startOfFirstWeek, 0, weekOffset * 7 + dayNum)
     IN  printCellForPosition(cols, weekNum, dayNum, todayWeek, cellDate,
                              showCount, showDays, clock)]

\* PrintDayCol(day): the label printed left of row day
PrintDayCol(day) ==
  CASE day = 0 -> "  S  "
    [] day = 1 -> "  M  "
    [] day = 2 -> "  T  "
    [] day = 3 -> "  W  "
    [] day = 4 -> "  T  "
    [] day = 5 -> "  F  "
    [] day = 6 -> "  S  "
    [] OTHER   -> "     "

\* time.Month.String()[:3]
MonthAbbrev(mo) ==
  <<"Jan", "Feb", "Mar", "Apr", "May", "Jun",
    "Jul", "Aug", "Sep", "Oct", "Nov", "Dec">>[mo]

\* PrintMonths(): the groups it prints, in order: the initial spacing, one
\* group per weekNum = WeeksInLastSixMonths down to 0, the extra group.
PrintMonths(clock) ==
  LET startDate == AddDate(GetBeginningOfDay(clock), -6, 0)
  IN  Then(AddDate(startDate, 0, -Weekday(startDate)),
           LAMBDA startOfWeek :
           LET cellDate(weekNum, dayInWeek) ==
                 AddDate(startOfWeek, 0, (WeeksInLastSixMonths - weekNum) * 7 + dayInWeek)
               firsts(weekNum) ==
                 {dayInWeek \in 0..6 : DayOfMonth(cellDate(weekNum, dayInWeek)) = 1}
               labelled == {weekNum \in 0..(WeeksInLastSixMonths - 1) : firsts(weekNum) /= {}}
               monthLabels ==
                 [w \in {weekNum + 1 : weekNum \in labelled} |->
                    MonthAbbrev(Month(cellDate(w - 1, MinOf(firsts(w - 1)))))]
           IN  <<"         ">>
               \o [p \in 1..(WeeksInLastSixMonths + 1) |->
                     LET weekNum == WeeksInLastSixMonths + 1 - p
                     IN  IF weekNum \in DOMAIN monthLabels
                           THEN monthLabels[weekNum] \o " "
                           ELSE "    "]
               \o <<"    ">>)

\* PrintCells(cols, showCommitCount, showDaysOfMonth): the rows dayNum = 0 .. 6
\* in printing order; row dayNum is element dayNum + 1.
PrintCells(cols, showCount, showDays, clock) ==
  Then(calculateGraphParameters(cols, clock),
       LAMBDA g :
         [r \in 1..7 |->
            printWeekRow(cols, r - 1, g.startOfFirstWeek, g.todayWeek,
                         g.maxWeek, showCount, showDays, clock)])

----------------------------------------------------------------------------
(* Inputs.                                                                 *)

\* the first current date explored: 2024-02-01
FirstDay == DaysFromCivil(2024, 2, 1)

Today == FirstDay .. (FirstDay + NumDays - 1)
Hours == {0, 12, 23}
Offsets == (-MaxOffset) .. MaxOffset
Emails == {"u@x.com", "a@x.com", "A@x.com"}
Filters == Emails \cup {""}

\* the local wall clock at the given civil day and hour
Clock(day, hour) == [day |-> day, hour |-> hour, off |-> 0]

\* a commit by e whose author time reads, in its own location of offset off,
\* hour h of the calendar date age days before the clock's date
Commit(e, age, h, off, clock) ==
  [email |-> e, when |-> [day |-> clock.day - age, hour |-> h, off |-> off]]

\* calendar days from the commit's date back to the clock's date
Age(c, clock) == clock.day - c.when.day

\* the ages the clock functions are called on: every day of the retention
\* window, a few days either side of it, and one far older
Ages == ((-MaxFuture) .. MaxAge) \cup {400}

\* the commits an open repository may yield
CommitSpace(clock) ==
  {Commit(e, a, 12, o, clock) : e \in Emails, a \in {-1, 0, 1, 183, 184},
                                o \in Offsets}

\* A repository whose log is left open: any commits of CommitSpace, at most
\* MaxCommits of them.
OpenRepo == [valid |-> TRUE, open |-> TRUE, log |-> <<>>]

\* A path that is no repository, or whose HEAD does not resolve.
InvalidRepo == [valid |-> FALSE, open |-> FALSE, log |-> <<>>]

\* Three commits of today by u@x.com and one 400 days old.
ScenarioRepo(clock) ==
  [valid |-> TRUE, open |-> FALSE,
   log |-> << Commit("u@x.com", 0, 0, 0, clock), Commit("u@x.com", 0, 12, 0, clock),
              Commit("u@x.com", 0, 23, 0, clock), Commit("u@x.com", 400, 12, 0, clock) >>]

\* Commits of several authors on several days of the window.
MixedRepo(clock) ==
  [valid |-> TRUE, open |-> FALSE,
   log |-> << Commit("a@x.com", 0, 12, 0, clock), Commit("u@x.com", 1, 23, 0, clock),
              Commit("u@x.com", 1, 0, 0, clock), Commit("A@x.com", 30, 12, 0, clock),
              Commit("u@x.com", 183, 12, 0, clock) >>]

Repos(clock) == {InvalidRepo, ScenarioRepo(clock), MixedRepo(clock)}

None == <<>>

\* the directories Stats may be pointed at
WorkDir == "/work/repo"
Directories == {WorkDir, "/tmp/empty"}

\* nothing written by the command yet
NoOutput == [stdout |-> <<>>, stderr |-> <<>>]

----------------------------------------------------------------------------
(* The stats command: commands.Stats(email, directory, showCommitCount,    *)
(* showDaysOfMonth), the repository at directory being repo.               *)

TypeOK ==
  /\ now.day \in Int /\ now.hour \in 0..23 /\ now.off = 0
  /\ email \in Filters
  /\ showCommitCount \in BOOLEAN /\ showDaysOfMonth \in BOOLEAN
  /\ pc \in {"Stats", "ForEach", "Print", "done", "call", "returned", "Repos",
             "Run", "exited", "panic", "Parse", "Scan", "parsed",
             "Add", "Walk", "walked", "began", "again",
             "Cells"}
  /\ n \in Nat
  /\ Len(cur) <= 1 /\ Len(daysAgo) <= 1
  /\ err \in BOOLEAN

InitStats(days, hours, filters) ==
  /\ now \in {Clock(d, h) : d \in days, h \in hours}
  /\ email \in filters
  /\ showCommitCount \in BOOLEAN
  /\ showDaysOfMonth \in BOOLEAN
  /\ pc = "Stats"
  /\ n = 0
  /\ cur = None
  /\ daysAgo = None
  /\ commits = NilMap
  /\ err = FALSE
  /\ grid = None
  /\ params = None
  /\ out = None
  /\ errMsg = None
  /\ header = None
  /\ selfFlag = FALSE
  /\ console = NoOutput
  /\ exit = None
  /\ file = None
  /\ scanner = None
  /\ lines = None
  /\ calls = None
  /\ tree = None
  /\ folders = None
  /\ ret = None
  /\ zone = FixedZone
  /\ dotfile = None
  /\ ri = 0

\* Every current date of the window, the scenario repositories.
Init ==
  /\ InitStats(Today, {23}, {"", "u@x.com"})
  /\ repo \in Repos(now)
  /\ directory = WorkDir

\* One current date, a repository whose log is left open.
InitOpen ==
  /\ InitStats({FirstDay}, {23}, Filters)
  /\ repo \in {OpenRepo, InvalidRepo}
  /\ directory \in (IF repo.valid THEN {WorkDir} ELSE Directories)

\* ProcessRepositories up to the iteration: the map is pre-populated, then
\* GetCommitsFromRepo opens the repository, its HEAD and its log.
ProcessRepositories ==
  /\ pc = "Stats"
  /\ repo.valid
  /\ commits' = InitialCommits
  /\ pc' = "ForEach"
  /\ UNCHANGED <<zone, ret, scanvars, fsvars, cmdvars, directory, errMsg, header, dotfile, ri, now, email, showCommitCount, showDaysOfMonth, repo, n, cur,
                 daysAgo, err, grid, params, out>>

\* git.PlainOpen or repo.Head fails: GetCommitsFromRepo and ProcessRepositories
\* return (nil, err), Stats returns the error, nothing is printed.
OpenFails ==
  /\ pc = "Stats"
  /\ ~repo.valid
  /\ commits' = NilMap
  /\ err' = TRUE
  /\ \E step \in {"open", "head", "log"} :
       errMsg' = ProcessRepositoriesError(directory,
                                          GetCommitsFromRepoError(step, directory))
  /\ pc' = "done"
  /\ UNCHANGED <<zone, ret, scanvars, fsvars, cmdvars, directory, header, dotfile, ri, now, email, showCommitCount, showDaysOfMonth, repo, n, cur,
                 daysAgo, grid, params, out>>

\* The commits the iterator may yield next.
NextCommits ==
  IF repo.open
    THEN (IF n < MaxCommits THEN CommitSpace(now) ELSE {})
    ELSE (IF n < Len(repo.log) THEN {repo.log[n + 1]} ELSE {})

\* Whether the iterator may be exhausted.
LogEnds == repo.open \/ n = Len(repo.log)

\* One call of the ForEach callback of GetCommitsFromRepo.
ForEach ==
  /\ pc = "ForEach"
  /\ \E c \in NextCommits :
       /\ cur' = <<c>>
       /\ commits' = ForEachCallback(email, c, commits, now)
  /\ n' = n + 1
  /\ UNCHANGED <<zone, ret, scanvars, fsvars, cmdvars, directory, errMsg, header, dotfile, ri, now, email, showCommitCount, showDaysOfMonth, repo, pc,
                 daysAgo, err, grid, params, out>>

\* The iterator is exhausted: GetCommitsFromRepo and ProcessRepositories
\* return the map to Stats.
ForEachDone ==
  /\ pc = "ForEach"
  /\ LogEnds
  /\ cur' = None
  /\ pc' = "Print"
  /\ UNCHANGED <<zone, ret, scanvars, fsvars, cmdvars, directory, errMsg, header, dotfile, ri, now, email, showCommitCount, showDaysOfMonth, repo, n,
                 daysAgo, commits, err, grid, params, out>>

\* Stats calls PrintCommitsStats(commits, showCommitCount, showDaysOfMonth)
\* and returns nil.
Render ==
  /\ pc = "Print"
  /\ grid' = BuildCols(SortMapIntoSlice(commits), commits, now)
  /\ params' = calculateGraphParameters(grid', now)
  /\ header' = PrintMonths(now)
  /\ out' = PrintCells(grid', showCommitCount, showDaysOfMonth, now)
  /\ pc' = "done"
  /\ UNCHANGED <<zone, ret, scanvars, fsvars, cmdvars, directory, errMsg, dotfile, ri, now, email, showCommitCount, showDaysOfMonth, repo, n, cur,
                 daysAgo, commits, err>>

Next == ProcessRepositories \/ OpenFails \/ ForEach \/ ForEachDone \/ Render

Spec == Init /\ [][Next]_vars

SpecOpen == InitOpen /\ [][Next]_vars

----------------------------------------------------------------------------
(* PrintCommitsStats(commits, showCommitCount, showDaysOfMonth) called on  *)
(* a count map of the caller's choice, on every current date, in a zone    *)
(* with or without summer time.                                            *)

\* the keys of the dense count map: from one day ahead up to MaxDenseKey
\* days ago
MaxDenseKey == 185

\* a count on every key, all different
DenseCommits == [k \in (-1)..MaxDenseKey |-> k + 2]

\* what ProcessRepositories returns for commits of today, of yesterday and
\* of 183 days ago
SparseCommits == (0 :> 3) @@ [InitialCommits EXCEPT ![1] = 2, ![183] = 1]

CountMaps == {DenseCommits, SparseCommits}

InitBuild ==
  /\ zone \in Zones
  /\ now \in {Clock(d, 23) : d \in Today}
  /\ commits \in CountMaps
  /\ showCommitCount = FALSE
  /\ showDaysOfMonth \in BOOLEAN
  /\ pc = "Print"
  /\ email = ""
  /\ repo = OpenRepo
  /\ directory = WorkDir
  /\ n = 0
  /\ cur = None
  /\ daysAgo = None
  /\ err = FALSE
  /\ grid = None
  /\ params = None
  /\ out = None
  /\ errMsg = None
  /\ header = None
  /\ selfFlag = FALSE
  /\ console = NoOutput
  /\ exit = None
  /\ file = None
  /\ scanner = None
  /\ lines = None
  /\ calls = None
  /\ tree = None
  /\ folders = None
  /\ ret = None
  /\ dotfile = None
  /\ ri = 0

NextBuild == Render

SpecBuild == InitBuild /\ [][NextBuild]_vars

----------------------------------------------------------------------------
(* The stats command while the wall clock moves on: every time.Now() of   *)
(* the run reads the clock afresh, and midnight may pass between any two   *)
(* steps of the run.                                                       *)

\* midnights that pass during one run at most
MaxMidnights == 1

InitTick ==
  /\ InitStats({FirstDay}, {23}, {"", "u@x.com"})
  /\ repo \in {ScenarioRepo(now), MixedRepo(now)}
  /\ directory = WorkDir

\* The wall clock passes midnight while the run is under way.
Midnight ==
  /\ pc \in {"Stats", "ForEach", "Print", "Cells"}
  /\ now.day < FirstDay + MaxMidnights
  /\ now' = Clock(now.day + 1, 0)
  /\ UNCHANGED <<zone, ret, scanvars, fsvars, cmdvars, directory, errMsg,
                 header, dotfile, ri, email, showCommitCount,
                 showDaysOfMonth, repo, pc, n, cur, daysAgo, commits, err,
                 grid, params, out>>

\* PrintCommitsStats, first half: keys := SortMapIntoSlice(commits) and
\* cols := BuildCols(keys, commits), which reads the clock.
RenderBuild ==
  /\ pc = "Print"
  /\ grid' = BuildCols(SortMapIntoSlice(commits), commits, now)
  /\ pc' = "Cells"
  /\ UNCHANGED <<zone, ret, scanvars, fsvars, cmdvars, directory, errMsg,
                 header, dotfile, ri, now, email, showCommitCount,
                 showDaysOfMonth, repo, n, cur, daysAgo, commits, err,
                 params, out>>

\* PrintCommitsStats, second half: PrintCells(cols, ...), in which
\* PrintMonths, calculateGraphParameters and CalculateWeekdayOffset read
\* the clock.
RenderPrint ==
  /\ pc = "Cells"
  /\ params' = calculateGraphParameters(grid, now)
  /\ header' = PrintMonths(now)
  /\ out' = PrintCells(grid, showCommitCount, showDaysOfMonth, now)
  /\ pc' = "done"
  /\ UNCHANGED <<zone, ret, scanvars, fsvars, cmdvars, directory, errMsg,
                 dotfile, ri, now, email, showCommitCount, showDaysOfMonth,
                 repo, n, cur, daysAgo, commits, err, grid>>

NextTick ==
  \/ ProcessRepositories \/ ForEach \/ ForEachDone
  \/ RenderBuild \/ RenderPrint \/ Midnight

SpecTick == InitTick /\ [][NextTick]_vars

----------------------------------------------------------------------------
(* Direct calls of the calendar clock's functions.                         *)

InitClock ==
  /\ now \in {Clock(FirstDay, h) : h \in Hours}
  /\ cur \in {<<Commit("u@x.com", a, h, o, now)>> : a \in Ages, h \in Hours, o \in Offsets}
  /\ directory = WorkDir
  /\ pc = "call"
  /\ daysAgo = None
  /\ email = ""
  /\ showCommitCount = FALSE
  /\ showDaysOfMonth = FALSE
  /\ repo = InvalidRepo
  /\ n = 0
  /\ commits = NilMap
  /\ err = FALSE
  /\ grid = None
  /\ params = None
  /\ out = None
  /\ errMsg = None
  /\ header = None
  /\ selfFlag = FALSE
  /\ console = NoOutput
  /\ exit = None
  /\ file = None
  /\ scanner = None
  /\ lines = None
  /\ calls = None
  /\ tree = None
  /\ folders = None
  /\ ret = None
  /\ zone = FixedZone
  /\ dotfile = None
  /\ ri = 0

\* CountDaysSinceDate(date) is called on the commit's author time.
CallCountDaysSinceDate ==
  /\ pc = "call"
  /\ daysAgo' = <<CountDaysSinceDate(cur[1].when, now)>>
  /\ pc' = "returned"
  /\ UNCHANGED <<zone, ret, scanvars, fsvars, cmdvars, directory, errMsg, header, dotfile, ri, now, email, showCommitCount, showDaysOfMonth, repo, n, cur,
                 commits, err, grid, params, out>>

\* GetBeginningOfDay(t) is called on the commit's author time.
CallGetBeginningOfDay ==
  /\ pc = "call"
  /\ ret' = <<GetBeginningOfDay(cur[1].when)>>
  /\ pc' = "began"
  /\ UNCHANGED <<zone, scanvars, fsvars, cmdvars, directory, errMsg, header,
                 dotfile, ri, now, email, showCommitCount, showDaysOfMonth,
                 repo, n, cur, daysAgo, commits, err, grid, params, out>>

\* GetBeginningOfDay is called on the time it returned.
CallGetBeginningOfDayAgain ==
  /\ pc = "began"
  /\ ret' = <<GetBeginningOfDay(ret[1])>>
  /\ pc' = "again"
  /\ UNCHANGED <<zone, scanvars, fsvars, cmdvars, directory, errMsg, header,
                 dotfile, ri, now, email, showCommitCount, showDaysOfMonth,
                 repo, n, cur, daysAgo, commits, err, grid, params, out>>

NextClock ==
  CallCountDaysSinceDate \/ CallGetBeginningOfDay \/ CallGetBeginningOfDayAgain

SpecClock == InitClock /\ [][NextClock]_vars

----------------------------------------------------------------------------
(* The path-list file: fileutil.ParseFileLines(filePath).  A file is a     *)
(* sequence of bytes; a line and a list element are sequences of bytes.    *)

\* the longest file read
MaxFileLen == 4

\* the line feed and the carriage return, and two other bytes
LF == "LF"
CR == "CR"
Bytes == {"a", "b", LF, CR}

Contents == UNION {[1..k -> Bytes] : k \in 0..MaxFileLen}

\* What the file system holds at filePath: whether the file exists, whether
\* os.Open succeeds on it, its bytes, and which call fails when the file is
\* being created ("none" if none does).
Files ==
  {[exists |-> FALSE, openable |-> TRUE, content |-> <<>>, fault |-> f] :
     f \in {"none", "mkdir", "create", "close"}}
  \cup
  {[exists |-> TRUE, openable |-> o, content |-> c, fault |-> "none"] :
     o \in BOOLEAN, c \in Contents}

\* []string(nil), []string{} and append(slice, text)
NilSlice == [isNil |-> TRUE, elems |-> <<>>]
EmptySlice == [isNil |-> FALSE, elems |-> <<>>]
AppendSlice(slice, text) == [isNil |-> FALSE, elems |-> Append(slice.elems, text)]

\* bufio's dropCR: a trailing carriage return is not part of the token
dropCR(data) ==
  IF data /= <<>> /\ data[Len(data)] = CR
    THEN SubSeq(data, 1, Len(data) - 1)
    ELSE data

\* the split function without the final unterminated line
ScanLinesNoFinalLine(data) ==
  IF \E i \in 1..Len(data) : data[i] = LF
    THEN LET i == MinOf({j \in 1..Len(data) : data[j] = LF})
         IN  [ok |-> TRUE, advance |-> i, token |-> dropCR(SubSeq(data, 1, i - 1))]
    ELSE [ok |-> FALSE, advance |-> 0, token |-> <<>>]

\* One scanner.Scan() on the bytes not yet consumed, with the scanner's
\* default split function bufio.ScanLines at the end of the input: no token
\* if nothing is left, the bytes up to the first line feed if there is one,
\* the rest of the input otherwise.
ScanLines(data) ==
  IF data = <<>>
    THEN [ok |-> FALSE, advance |-> 0, token |-> <<>>]
    ELSE IF \E i \in 1..Len(data) : data[i] = LF
      THEN LET i == MinOf({j \in 1..Len(data) : data[j] = LF})
           IN  [ok |-> TRUE, advance |-> i, token |-> dropCR(SubSeq(data, 1, i - 1))]
      ELSE [ok |-> TRUE, advance |-> Len(data), token |-> dropCR(data)]

\* The scanning loop of ParseFileLines on the bytes data, from the slice
\* got so far: every token scanner.Scan() finds is appended.
RECURSIVE ScanAll(_, _)
ScanAll(data, got) ==
  LET tok == ScanLines(data)
  IN  IF tok.ok
        THEN ScanAll(SubSeq(data, tok.advance + 1, Len(data)),
                     AppendSlice(got, tok.token))
        ELSE got

\* ParseFileLines(filePath) as a whole, f being what the file system holds
\* at filePath: the file system afterwards and the slice returned.
ParseFileLines(f) ==
  IF ~f.exists
    THEN [file  |-> IF f.fault \in {"mkdir", "create"}
                      THEN f ELSE [f EXCEPT !.exists = TRUE],
          lines |-> IF f.fault = "close" THEN NilSlice ELSE EmptySlice]
  ELSE IF ~f.openable
    THEN [file |-> f, lines |-> EmptySlice]
    ELSE [file |-> f, lines |-> ScanAll(f.content, NilSlice)]

----------------------------------------------------------------------------
(* The legacy aggregator (pkg/stats/stats.go): ProcessRepositories(email)  *)
(* walks the repositories listed in the dotfile and accumulates all of     *)
(* them into one count map.                                                *)

MaxRepos == 2

\* The loop of the legacy CountDaysSinceDate: date, an instant in hours, is
\* moved forward a day at a time while it is before now0; the result is the
\* number of moves, OutOfRange once they exceed DaysInLastSixMonths.
LegacyCountLoop(date, now0) ==
  LET stops(k) == ~(date + k * HoursInDay < now0)
  IN  IF \E k \in 0..DaysInLastSixMonths : stops(k)
        THEN CHOOSE k \in 0..DaysInLastSixMonths :
               stops(k) /\ \A j \in 0..(k - 1) : ~stops(j)
        ELSE OutOfRange

LegacyCountDaysSinceDate(date, clock) ==
  LegacyCountLoop(Instant(date), Instant(GetBeginningOfDay(clock)))

LegacyCalculateWeekdayOffset(clock) ==
  CASE Weekday(clock) = 0 -> 7
    [] Weekday(clock) = 1 -> 6
    [] Weekday(clock) = 2 -> 5
    [] Weekday(clock) = 3 -> 4
    [] Weekday(clock) = 4 -> 3
    [] Weekday(clock) = 5 -> 2
    [] Weekday(clock) = 6 -> 1
    [] OTHER -> 0

\* The legacy callback storing 1 instead of incrementing.
LegacyForEachCallbackOverwrite(e, c, m, clock) ==
  IF c.email /= e
    THEN m
    ELSE LET d == LegacyCountDaysSinceDate(c.when, clock)
                    + LegacyCalculateWeekdayOffset(clock)
         IN  IF d /= OutOfRange THEN MapPut(m, d, 1) ELSE m

\* One call of the callback of the legacy GetCommitsFromRepo.
LegacyForEachCallback(e, c, m, clock) ==
  IF c.email /= e
    THEN m
    ELSE LET d == LegacyCountDaysSinceDate(c.when, clock)
                    + LegacyCalculateWeekdayOffset(clock)
         IN  IF d /= OutOfRange THEN MapPut(m, d, MapGet(m, d) + 1) ELSE m

\* The legacy GetCommitsFromRepo on the commits log[from .. Len(log)] of an
\* opened repository.
RECURSIVE LegacyForEach(_, _, _, _, _)
LegacyForEach(e, log, from, m, clock) ==
  IF from > Len(log)
    THEN m
    ELSE LegacyForEach(e, log, from + 1,
                       LegacyForEachCallback(e, log[from], m, clock), clock)

\* The repository loop of the legacy ProcessRepositories from position
\* from on: [commits, err], commits nil as soon as a repository fails.
RECURSIVE LegacyRepoLoop(_, _, _, _, _)
LegacyRepoLoop(e, paths, from, m, clock) ==
  IF from > Len(paths)
    THEN [commits |-> m, err |-> FALSE]
    ELSE IF ~paths[from].valid
      THEN [commits |-> NilMap, err |-> TRUE]
      ELSE LegacyRepoLoop(e, paths, from + 1,
                          LegacyForEach(e, paths[from].log, 1, m, clock), clock)

\* The legacy ProcessRepositories(email) over the dotfile's paths.
LegacyProcessRepositories(e, paths, clock) ==
  LegacyRepoLoop(e, paths, 1, InitialCommits, clock)

\* The path on line j of the dotfile.
LegacyPath(j) == "/repos/" \o ToString(j)

\* The legacy ProcessRepositories wraps the error of GetCommitsFromRepo.
LegacyProcessRepositoriesError(path, inner) ==
  <<"error processing repository ", path, ": ">> \o inner

\* The bytes of the path on line j of the dotfile.
LegacyPathBytes(j) == <<"/", "r", "e", "p", "o", "s", "/", ToString(j)>>

\* The bytes of a dotfile listing k paths, as DumpStringsToFile writes
\* them: joined by line feeds.
RECURSIVE DotfileContent(_)
DotfileContent(k) ==
  IF k = 0 THEN <<>>
  ELSE IF k = 1 THEN LegacyPathBytes(1)
  ELSE DotfileContent(k - 1) \o <<LF>> \o LegacyPathBytes(k)

\* What the file system may hold at the dotfile's path when k repositories
\* are read from it: with k = 0 the file is missing, empty or cannot be
\* opened.
LegacyFiles(k) ==
  IF k = 0
    THEN {[exists |-> FALSE, openable |-> TRUE, content |-> <<>>, fault |-> f] :
            f \in {"none", "mkdir", "create", "close"}}
         \cup {[exists |-> TRUE, openable |-> TRUE, content |-> <<>>, fault |-> "none"],
               [exists |-> TRUE, openable |-> FALSE, content |-> DotfileContent(1),
                fault |-> "none"]}
    ELSE {[exists |-> TRUE, openable |-> TRUE, content |-> DotfileContent(k),
           fault |-> "none"]}

\* The repositories a dotfile may list.
LegacyRepos(clock) ==
  { InvalidRepo,
    [valid |-> TRUE, open |-> FALSE, log |-> <<>>],
    [valid |-> TRUE, open |-> FALSE,
     log |-> << Commit("u@x.com", 0, 12, 0, clock), Commit("a@x.com", 0, 12, 0, clock),
                Commit("u@x.com", 1, 0, 0, clock), Commit("u@x.com", 1, 23, 1, clock) >>],
    [valid |-> TRUE, open |-> FALSE,
     log |-> << Commit("u@x.com", 0, 23, 0, clock), Commit("u@x.com", 1, 12, -1, clock),
                Commit("a@x.com", 30, 12, 0, clock), Commit("u@x.com", 400, 12, 0, clock) >>] }

\* The dotfiles: at most MaxRepos repositories, in any order.
Dotfiles(clock) ==
  UNION {[1..k -> LegacyRepos(clock)] : k \in 0..MaxRepos}

InitLegacy ==
  /\ now \in {Clock(FirstDay + d, 23) : d \in 0..(DaysInWeek - 1)}
  /\ email \in {"u@x.com", "a@x.com"}
  /\ dotfile \in Dotfiles(now)
  /\ ri = 0
  /\ directory = WorkDir
  /\ showCommitCount = FALSE
  /\ showDaysOfMonth = FALSE
  /\ repo = InvalidRepo
  /\ pc = "Stats"
  /\ n = 0
  /\ cur = None
  /\ daysAgo = None
  /\ commits = NilMap
  /\ err = FALSE
  /\ grid = None
  /\ params = None
  /\ out = None
  /\ errMsg = None
  /\ header = None
  /\ selfFlag = FALSE
  /\ console = NoOutput
  /\ exit = None
  /\ file \in LegacyFiles(Len(dotfile))
  /\ scanner = None
  /\ lines = None
  /\ calls = None
  /\ tree = None
  /\ folders = None
  /\ ret = None
  /\ zone = FixedZone

\* ProcessRepositories reads the dotfile and pre-populates the map.
LegacyStart ==
  /\ pc = "Stats"
  /\ LET read == ParseFileLines(file)
     IN  /\ file' = read.file
         /\ lines' = read.lines
  /\ commits' = InitialCommits
  /\ ri' = 1
  /\ pc' = "Repos"
  /\ UNCHANGED <<zone, ret, scanvars, scanner, cmdvars, directory, errMsg, header, dotfile, now, email, showCommitCount, showDaysOfMonth, repo,
                 n, cur, daysAgo, err, grid, params, out>>

\* GetCommitsFromRepo opens the next repository of the dotfile and its log.
LegacyOpen ==
  /\ pc = "Repos"
  /\ ri <= Len(dotfile)
  /\ dotfile[ri].valid
  /\ repo' = dotfile[ri]
  /\ n' = 0
  /\ pc' = "ForEach"
  /\ UNCHANGED <<zone, ret, scanvars, fsvars, cmdvars, directory, errMsg, header, dotfile, ri, now, email, showCommitCount, showDaysOfMonth,
                 cur, daysAgo, commits, err, grid, params, out>>

\* git.PlainOpen or repo.Head fails on the next repository: GetCommitsFromRepo
\* and ProcessRepositories return (nil, err).
LegacyOpenFails ==
  /\ pc = "Repos"
  /\ ri <= Len(dotfile)
  /\ ~dotfile[ri].valid
  /\ repo' = dotfile[ri]
  /\ commits' = NilMap
  /\ err' = TRUE
  /\ \E step \in {"open", "head", "log"} :
       errMsg' = LegacyProcessRepositoriesError(
                   LegacyPath(ri), GetCommitsFromRepoError(step, LegacyPath(ri)))
  /\ pc' = "done"
  /\ UNCHANGED <<zone, ret, scanvars, fsvars, cmdvars, directory, header, dotfile, ri, now, email, showCommitCount, showDaysOfMonth,
                 n, cur, daysAgo, grid, params, out>>

\* One call of the ForEach callback on the repository in hand.
LegacyCallback ==
  /\ pc = "ForEach"
  /\ n < Len(repo.log)
  /\ cur' = <<repo.log[n + 1]>>
  /\ commits' = LegacyForEachCallback(email, repo.log[n + 1], commits, now)
  /\ n' = n + 1
  /\ UNCHANGED <<zone, ret, scanvars, fsvars, cmdvars, directory, errMsg, header, dotfile, ri, now, email, showCommitCount, showDaysOfMonth,
                 repo, pc, daysAgo, err, grid, params, out>>

\* The iterator is exhausted: GetCommitsFromRepo returns the map and the
\* loop moves on to the next repository.
LegacyNextRepo ==
  /\ pc = "ForEach"
  /\ n = Len(repo.log)
  /\ cur' = None
  /\ ri' = ri + 1
  /\ pc' = "Repos"
  /\ UNCHANGED <<zone, ret, scanvars, fsvars, cmdvars, directory, errMsg, header, dotfile, now, email, showCommitCount, showDaysOfMonth, repo,
                 n, daysAgo, commits, err, grid, params, out>>

\* Every repository is processed: ProcessRepositories returns (commits, nil).
LegacyReturn ==
  /\ pc = "Repos"
  /\ ri > Len(dotfile)
  /\ pc' = "Print"
  /\ UNCHANGED <<zone, ret, scanvars, fsvars, cmdvars, directory, errMsg, header, dotfile, ri, now, email, showCommitCount, showDaysOfMonth,
                 repo, n, cur, daysAgo, commits, err, grid, params, out>>

\* The legacy SortMapIntoSlice(m): the keys of m in ascending order (the
\* keys up to MaxKey by range, the few above it one by one).
MaxKey == 400

RECURSIVE LegacySortInts(_)
LegacySortInts(S) ==
  IF S = {} THEN <<>>
  ELSE LET lo == MinOf(S) IN <<lo>> \o LegacySortInts(S \ {lo})

LegacySortMapIntoSlice(m) ==
  LET near == {k \in DOMAIN m : k <= MaxKey}
  IN  SelectSeq([i \in 1..(MaxKey + 1) |-> i - 1], LAMBDA k : k \in near)
      \o LegacySortInts(DOMAIN m \ near)

\* The legacy BuildCols(keys, commits): week index -> Column. In the loop
\* col is emptied at a key with k % 7 = 0, every key appends commits[k] to
\* it, and a key with k % 7 = 6 stores it as cols[k / 7]: the Column stored
\* at such a key holds the counts of the keys from the last emptying (from
\* the first key if there was none) up to it.
LegacyBuildCols(keys, m) ==
  LET K       == {keys[i] : i \in 1..Len(keys)}
      stored  == {k \in K : k % DaysInWeek = 6}
      colAt(k) ==
        LET empties == {z \in K : z <= k /\ z % DaysInWeek = 0}
            from    == IF empties = {} THEN keys[1] ELSE MaxOf(empties)
            run     == SelectSeq(keys, LAMBDA x : from <= x /\ x <= k)
        IN  [j \in 0..(Len(run) - 1) |-> m[run[j + 1]]]
  IN  [week \in {k \div DaysInWeek : k \in stored} |->
         colAt(week * DaysInWeek + 6)]

\* The legacy PrintCell(val, today): the escape sequence and the text.
LegacyPrintCell(val, today) ==
  LET escape0 == CASE val > 0 /\ val < 5   -> "1;30;47m"
                   [] val >= 5 /\ val < 10 -> "1;30;43m"
                   [] val >= 10            -> "1;30;42m"
                   [] OTHER                -> "0;37;30m"
      escape  == IF today THEN "1;37;45m" ELSE escape0
      content == CASE val = 0                -> "  - "
                   [] val >= 10 /\ val < 100 -> " " \o ToString(val) \o " "
                   [] val >= 100             -> ToString(val) \o " "
                   [] OTHER                  -> "  " \o ToString(val) \o " "
  IN  [val |-> val, today |-> today, escape |-> escape, content |-> content]

\* The legacy PrintCells(cols): rows j = 6 down to 0, in each the cells
\* i = WeeksInLastSixMonths + 1 down to 0 (the day label is printed at
\* i = WeeksInLastSixMonths + 1, and a cell too). The cell of today,
\* i = 0 and j = CalculateWeekdayOffset() - 1, reads col[j] without looking
\* at len(col): past the end of the slice the program panics, having
\* printed the rows and cells before it.
LegacyPrintCells(cols, clock) ==
  LET width  == WeeksInLastSixMonths + 2
      tj     == LegacyCalculateWeekdayOffset(clock) - 1
      len(i) == Cardinality(DOMAIN cols[i])
      panics == 0 \in DOMAIN cols /\ ~(tj < len(0))
      cell(j, i) ==
        IF i \in DOMAIN cols /\ i = 0 /\ j = tj
          THEN LegacyPrintCell(cols[i][j], TRUE)
        ELSE IF i \in DOMAIN cols /\ len(i) > j
          THEN LegacyPrintCell(cols[i][j], FALSE)
        ELSE LegacyPrintCell(0, FALSE)
      row(j, cells) == [p \in 1..cells |-> cell(j, width - p)]
  IN  IF panics
        THEN [panic |-> TRUE,
              rows  |-> [r \in 1..(DaysInWeek - tj) |->
                           IF DaysInWeek - r = tj
                             THEN row(tj, width - 1)
                             ELSE row(DaysInWeek - r, width)]]
        ELSE [panic |-> FALSE,
              rows  |-> [r \in 1..DaysInWeek |-> row(DaysInWeek - r, width)]]

\* The legacy PrintMonths(): the initial spacing, then one group per week
\* from 183 days before today's midnight, a week at a time, until the week
\* is after time.Now(); a group is the month's abbreviation when the month
\* differs from the one of the week before.
LegacyPrintMonths(clock) ==
  LET first    == GetBeginningOfDay(clock).day - DaysInLastSixMonths
      week(k)  == Clock(first + k * DaysInWeek, 0)
      after(k) == Instant(week(k)) > Instant(clock)
      last     == CHOOSE k \in 0..(2 * WeeksInLastSixMonths) :
                    after(k + 1) /\ \A x \in 1..k : ~after(x)
  IN  <<"         ">>
      \o [p \in 1..(last + 1) |->
            IF p > 1 /\ Month(week(p - 1)) /= Month(week(p - 2))
              THEN MonthAbbrev(Month(week(p - 1))) \o " "
              ELSE "    "]

\* The legacy Stats calls PrintCommitsStats(commits) and returns nil, unless
\* PrintCells panics on an index out of range, which ends the process.
LegacyRender ==
  /\ pc = "Print"
  /\ header' = LegacyPrintMonths(now)
  /\ grid' = LegacyBuildCols(LegacySortMapIntoSlice(commits), commits)
  /\ LET printed == LegacyPrintCells(grid', now)
     IN  /\ out' = printed.rows
         /\ pc' = IF printed.panic THEN "panic" ELSE "done"
  /\ UNCHANGED <<zone, ret, scanvars, fsvars, cmdvars, directory, errMsg, dotfile, ri, now, email,
                 showCommitCount, showDaysOfMonth, repo, n, cur, daysAgo,
                 commits, err, params>>

NextLegacy ==
  \/ LegacyStart \/ LegacyOpen \/ LegacyOpenFails
  \/ LegacyCallback \/ LegacyNextRepo \/ LegacyReturn \/ LegacyRender

SpecLegacy == InitLegacy /\ [][NextLegacy]_vars

----------------------------------------------------------------------------
(* The stats command (cmd/stats.go): statsCmd.Run checks the flags, finds  *)
(* the email, calls commands.Stats and reports its error; then the process *)
(* ends, by os.Exit(0) in the OnInitialize hook or by Execute returning    *)
(* after rootCmd.Execute gave no error.                                    *)

\* what `git config --global user.email` may give: the command fails, or
\* prints this (trimmed) text
GitConfig == {"fail", "", "u@x.com"}

\* the line fmt.Println writes for each early return of Run
UsageMessage(why) ==
  CASE why = "flags" ->
         <<"Error: The -c (count) and -d (days) flags cannot be used together">>
    [] why = "abs"   -> <<"Error getting current directory:", "getwd failed">>
    [] why = "git"   -> <<"Error getting user email from git config:", "exit status 1">>
    [] OTHER         -> <<"No email found in git config. Please set your email">>

\* fmt.Println(line) on the command's standard output
Println(line) == [console EXCEPT !.stdout = Append(@, line)]

InitCmd ==
  /\ now = Clock(FirstDay, 23)
  /\ email \in {"", "a@x.com"}
  /\ showCommitCount \in BOOLEAN
  /\ showDaysOfMonth \in BOOLEAN
  /\ selfFlag \in BOOLEAN
  /\ repo \in {InvalidRepo, ScenarioRepo(now)}
  /\ directory \in (IF repo.valid THEN {WorkDir} ELSE Directories)
  /\ pc = "Run"
  /\ n = 0
  /\ cur = None
  /\ daysAgo = None
  /\ commits = NilMap
  /\ err = FALSE
  /\ grid = None
  /\ params = None
  /\ out = None
  /\ errMsg = None
  /\ header = None
  /\ console = NoOutput
  /\ exit = None
  /\ file = None
  /\ scanner = None
  /\ lines = None
  /\ calls = None
  /\ tree = None
  /\ folders = None
  /\ ret = None
  /\ zone = FixedZone
  /\ dotfile = None
  /\ ri = 0

\* Run returns before calling Stats: both -c and -d, filepath.Abs failing,
\* git config failing or giving no email. Run has printed its line and
\* returned, Execute sees no error, the process ends with status 0.
RunUsageError ==
  /\ pc = "Run"
  /\ \E absFails \in BOOLEAN, git \in GitConfig :
       LET why == CASE showCommitCount /\ showDaysOfMonth -> "flags"
                    [] absFails                           -> "abs"
                    [] selfFlag /\ git = "fail"           -> "git"
                    [] selfFlag /\ git = ""               -> "email"
                    [] OTHER                              -> "none"
       IN  /\ why /= "none"
           /\ console' = Println(UsageMessage(why))
           /\ email' = IF why = "email" THEN "" ELSE email
  /\ exit' = <<0>>
  /\ pc' = "exited"
  /\ UNCHANGED <<zone, ret, scanvars, fsvars, now, showCommitCount, showDaysOfMonth, selfFlag, repo,
                 directory, n, cur, daysAgo, commits, err, grid, params, out,
                 errMsg, header, dotfile, ri>>

\* Run passes its checks and calls commands.Stats(email, currentDir,
\* showCommitCountFlag, showDaysOfMonthFlag); with --self the email is the
\* one of git config.
RunCallsStats ==
  /\ pc = "Run"
  /\ ~(showCommitCount /\ showDaysOfMonth)
  /\ IF selfFlag
       THEN \E git \in GitConfig \ {"fail", ""} : email' = git
       ELSE email' = email
  /\ pc' = "Stats"
  /\ UNCHANGED <<zone, ret, scanvars, fsvars, now, showCommitCount, showDaysOfMonth, selfFlag, repo,
                 directory, n, cur, daysAgo, commits, err, grid, params, out,
                 errMsg, header, console, exit, dotfile, ri>>

\* Stats has returned: Run prints "Error:" and the error if there is one and
\* returns; the process ends with status 0.
RunEnds ==
  /\ pc = "done"
  /\ console' = IF err THEN Println(<<"Error:">> \o errMsg) ELSE console
  /\ exit' = <<0>>
  /\ pc' = "exited"
  /\ UNCHANGED <<zone, ret, scanvars, fsvars, now, email, showCommitCount, showDaysOfMonth, selfFlag, repo,
                 directory, n, cur, daysAgo, commits, err, grid, params, out,
                 errMsg, header, dotfile, ri>>

NextCmd == RunUsageError \/ RunCallsStats \/ Next \/ RunEnds

SpecCmd == InitCmd /\ [][NextCmd]_vars

----------------------------------------------------------------------------
(* Direct calls of the renderer: PrintCells(cols, showCommitCount,        *)
(* showDaysOfMonth) on a grid of the caller's choice.                      *)

MaxVal == 11
\* a count of three digits
HundredCommits == 100
MaxWeekIndex == 28

\* a Column: make(Column, 7) with count v on day d
ColumnWith(d, v) == [x \in 0..(DaysInWeek - 1) |-> IF x = d THEN v ELSE 0]

\* the week indices the grids use
GridWeeks == {-1, 0, WeeksInLastSixMonths, WeeksInLastSixMonths + 1, MaxWeekIndex}

\* the grids handed to PrintCells: the empty one, one count in one week,
\* one commit in each of two weeks
Grids ==
  {<<>>}
  \cup {w :> ColumnWith(d, v) :
          w \in GridWeeks, d \in 0..(DaysInWeek - 1),
          v \in (0..MaxVal) \cup {HundredCommits} }
  \cup {(p[1] :> ColumnWith(0, 1)) @@ (p[2] :> ColumnWith(6, 1)) :
          p \in {q \in GridWeeks \X GridWeeks : q[1] /= q[2]}}

InitGrid ==
  /\ now \in {Clock(FirstDay, 23), Clock(FirstDay + 3, 23)}
  /\ showCommitCount \in BOOLEAN
  /\ showDaysOfMonth \in BOOLEAN
  /\ grid \in Grids
  /\ pc = "call"
  /\ email = ""
  /\ selfFlag = FALSE
  /\ repo = InvalidRepo
  /\ directory = WorkDir
  /\ n = 0
  /\ cur = None
  /\ daysAgo = None
  /\ commits = NilMap
  /\ err = FALSE
  /\ params = None
  /\ out = None
  /\ errMsg = None
  /\ header = None
  /\ console = NoOutput
  /\ exit = None
  /\ file = None
  /\ scanner = None
  /\ lines = None
  /\ calls = None
  /\ tree = None
  /\ folders = None
  /\ ret = None
  /\ zone = FixedZone
  /\ dotfile = None
  /\ ri = 0

\* PrintCells(cols, showCommitCount, showDaysOfMonth) is called on the grid.
CallPrintCells ==
  /\ pc = "call"
  /\ header' = PrintMonths(now)
  /\ params' = calculateGraphParameters(grid, now)
  /\ out' = PrintCells(grid, showCommitCount, showDaysOfMonth, now)
  /\ pc' = "returned"
  /\ UNCHANGED <<zone, ret, scanvars, fsvars, now, email, showCommitCount, showDaysOfMonth, selfFlag, repo,
                 directory, n, cur, daysAgo, commits, err, grid, errMsg,
                 console, exit, dotfile, ri>>

NextGrid == CallPrintCells

SpecGrid == InitGrid /\ [][NextGrid]_vars

----------------------------------------------------------------------------
(* Reading the path-list file step by step.                                *)

\* the bytes of the file the scanner has not consumed
Unread == SubSeq(file.content, scanner + 1, Len(file.content))

InitFile ==
  /\ file \in Files
  /\ scanner = 0
  /\ lines = NilSlice
  /\ calls = None
  /\ tree = None
  /\ folders = None
  /\ ret = None
  /\ zone = FixedZone
  /\ pc = "Parse"
  /\ now = Clock(FirstDay, 0)
  /\ showCommitCount = FALSE
  /\ showDaysOfMonth = FALSE
  /\ grid = None
  /\ email = ""
  /\ selfFlag = FALSE
  /\ repo = InvalidRepo
  /\ directory = WorkDir
  /\ n = 0
  /\ cur = None
  /\ daysAgo = None
  /\ commits = NilMap
  /\ err = FALSE
  /\ params = None
  /\ out = None
  /\ errMsg = None
  /\ header = None
  /\ console = NoOutput
  /\ exit = None
  /\ dotfile = None
  /\ ri = 0

\* os.Stat says the file does not exist: the directory and an empty file
\* are created and the result is []string{}, also when MkdirAll or Create
\* fails, or nil when closing the new file fails.
ParseMissing ==
  /\ pc = "Parse"
  /\ ~file.exists
  /\ file' = IF file.fault \in {"mkdir", "create"}
               THEN file
               ELSE [file EXCEPT !.exists = TRUE]
  /\ lines' = IF file.fault = "close" THEN NilSlice ELSE EmptySlice
  /\ pc' = "parsed"
  /\ UNCHANGED <<zone, ret, scanvars, scanner, cmdvars, now, email, showCommitCount,
                 showDaysOfMonth, repo, directory, n, cur, daysAgo, commits,
                 err, grid, params, out, errMsg, header, dotfile, ri>>

\* os.Open fails on the existing file: the result is []string{}.
ParseOpenFails ==
  /\ pc = "Parse"
  /\ file.exists /\ ~file.openable
  /\ lines' = EmptySlice
  /\ pc' = "parsed"
  /\ UNCHANGED <<zone, ret, scanvars, file, scanner, cmdvars, now, email, showCommitCount,
                 showDaysOfMonth, repo, directory, n, cur, daysAgo, commits,
                 err, grid, params, out, errMsg, header, dotfile, ri>>

\* os.Open succeeds: var lines []string and a new scanner on the file.
ParseOpen ==
  /\ pc = "Parse"
  /\ file.exists /\ file.openable
  /\ lines' = NilSlice
  /\ scanner' = 0
  /\ pc' = "Scan"
  /\ UNCHANGED <<zone, ret, scanvars, file, cmdvars, now, email, showCommitCount,
                 showDaysOfMonth, repo, directory, n, cur, daysAgo, commits,
                 err, grid, params, out, errMsg, header, dotfile, ri>>

\* scanner.Scan() is true: lines = append(lines, scanner.Text()).
Scan ==
  /\ pc = "Scan"
  /\ LET tok == ScanLines(Unread)
     IN  /\ tok.ok
         /\ lines' = AppendSlice(lines, tok.token)
         /\ scanner' = scanner + tok.advance
  /\ UNCHANGED <<zone, ret, scanvars, file, pc, cmdvars, now, email, showCommitCount,
                 showDaysOfMonth, repo, directory, n, cur, daysAgo, commits,
                 err, grid, params, out, errMsg, header, dotfile, ri>>

\* scanner.Scan() is false: the loop ends, the file is closed and lines is
\* returned.
ScanEnds ==
  /\ pc = "Scan"
  /\ ~ScanLines(Unread).ok
  /\ pc' = "parsed"
  /\ UNCHANGED <<zone, ret, scanvars, file, scanner, lines, cmdvars, now, email, showCommitCount,
                 showDaysOfMonth, repo, directory, n, cur, daysAgo, commits,
                 err, grid, params, out, errMsg, header, dotfile, ri>>

NextFile == ParseMissing \/ ParseOpenFails \/ ParseOpen \/ Scan \/ ScanEnds

SpecFile == InitFile /\ [][NextFile]_vars

----------------------------------------------------------------------------
(* The scan command's writes to the path-list file:                        *)
(* fileutil.AddElementsToFile(filePath, newRepos).                         *)

\* calls of AddElementsToFile explored at most, and the longest newRepos
MaxCalls == 2
MaxNew == 2

\* the paths added, as bytes
Paths == {<<"a">>, <<"b">>, <<"a", "b">>}

\* the values of newRepos
NewRepos == UNION {[1..k -> Paths] : k \in 0..MaxNew}

\* SliceContains(slice, value)
SliceContains(slice, value) ==
  \E i \in 1..Len(slice.elems) : slice.elems[i] = value

\* JoinSlices appending every new element, present or not.
RECURSIVE JoinSlicesNoDedup(_, _)
JoinSlicesNoDedup(new, existing) ==
  IF new = <<>> THEN existing
  ELSE JoinSlicesNoDedup(Tail(new), AppendSlice(existing, Head(new)))

\* JoinSlices(new, existing): the elements of new, in order, are appended
\* to existing unless existing, as grown so far, contains them.
RECURSIVE JoinSlices(_, _)
JoinSlices(new, existing) ==
  IF new = <<>> THEN existing
  ELSE JoinSlices(Tail(new),
                  IF SliceContains(existing, Head(new))
                    THEN existing
                    ELSE AppendSlice(existing, Head(new)))

\* strings.Join(repos, "\n"), as bytes
RECURSIVE Join(_)
Join(repos) ==
  IF repos = <<>> THEN <<>>
  ELSE IF Len(repos) = 1 THEN repos[1]
  ELSE repos[1] \o <<LF>> \o Join(Tail(repos))

\* DumpStringsToFile(repos, path), f being what the file system holds at
\* path: os.WriteFile creates or truncates the file and writes the joined
\* lines, unless the file cannot be created.
DumpStringsToFile(repos, f) ==
  IF ~f.exists /\ f.fault \in {"mkdir", "create"}
    THEN f
    ELSE [f EXCEPT !.exists = TRUE, !.content = Join(repos.elems)]

\* AddElementsToFile(filePath, newRepos), f being what the file system holds
\* at filePath: the file system afterwards.  It returns at once if the
\* directory cannot be created.
AddElementsToFile(f, newRepos) ==
  IF ~f.exists /\ f.fault = "mkdir"
    THEN f
    ELSE LET read          == ParseFileLines(f)
             existingRepos == read.lines
             repos         == JoinSlices(newRepos, existingRepos)
         IN  DumpStringsToFile(repos, read.file)

\* The path-list file is absent or empty, on a file system on which
\* directories and files can be created.
InitAdd ==
  /\ file \in {[exists |-> e, openable |-> TRUE, content |-> <<>>, fault |-> "none"] :
                 e \in BOOLEAN}
  /\ calls = <<>>
  /\ scanner = None
  /\ lines = None
  /\ tree = None
  /\ folders = None
  /\ ret = None
  /\ zone = FixedZone
  /\ pc = "Add"
  /\ now = Clock(FirstDay, 0)
  /\ showCommitCount = FALSE
  /\ showDaysOfMonth = FALSE
  /\ grid = None
  /\ email = ""
  /\ selfFlag = FALSE
  /\ repo = InvalidRepo
  /\ directory = WorkDir
  /\ n = 0
  /\ cur = None
  /\ daysAgo = None
  /\ commits = NilMap
  /\ err = FALSE
  /\ params = None
  /\ out = None
  /\ errMsg = None
  /\ header = None
  /\ console = NoOutput
  /\ exit = None
  /\ dotfile = None
  /\ ri = 0

\* One call AddElementsToFile(filePath, newRepos).
CallAddElementsToFile ==
  /\ pc = "Add"
  /\ Len(calls) < MaxCalls
  /\ \E newRepos \in NewRepos :
       /\ file' = AddElementsToFile(file, newRepos)
       /\ calls' = Append(calls, newRepos)
  /\ UNCHANGED <<zone, ret, scanner, lines, tree, folders, cmdvars, now, email,
                 showCommitCount, showDaysOfMonth, repo, directory, pc, n,
                 cur, daysAgo, commits, err, grid, params, out, errMsg,
                 header, dotfile, ri>>

NextAdd == CallAddElementsToFile

SpecAdd == InitAdd /\ [][NextAdd]_vars

----------------------------------------------------------------------------
(* The scanner (pkg/scanner): ScanGitFolders(folders, folder).  A          *)
(* directory is the sequence of names leading to it from the folder        *)
(* scanned, which is <<>>.                                                 *)

GitName == ".git"
Names == {GitName, "vendor", "node_modules", "a", "b"}

\* the directories a tree may hold below the folder scanned, besides the
\* directories leading to them
TreeLeaves ==
  { <<GitName>>, <<"a", GitName>>, <<"a", "a", GitName>>, <<"b">>,
    <<"vendor", GitName>>, <<"a", "node_modules", "b", GitName>>,
    <<"node_modules", "a", GitName>>, <<GitName, "a", GitName>>,
    <<"b", "vendor">> }

\* a set of directories with every directory on the way to them
Closure(D) == UNION {{SubSeq(d, 1, k) : k \in 1..Len(d)} : d \in D}

\* the orders in which Readdir may list the names
Orders ==
  { <<GitName, "a", "b", "node_modules", "vendor">>,
    <<"vendor", "node_modules", "b", "a", GitName>>,
    <<"a", GitName, "vendor", "b", "node_modules">> }

\* The trees: the directories, those that cannot be opened or read, and
\* the order of Readdir.
Trees ==
  {[dirs |-> Closure(D), unreadable |-> U, order |-> o] :
     D \in SUBSET TreeLeaves, U \in {{}, {<<"a">>}, {<<"vendor">>}},
     o \in Orders}

\* the folders ScanGitFolders is handed
Existing == {<<>>, << <<"existing", "folder">> >>, << <<"a">>, <<>> >>}

\* filepath.Join(folder, name) and filepath.Dir(path)
JoinPath(folder, name) == Append(folder, name)
Dir(path) == SubSeq(path, 1, Len(path) - 1)

\* folderOpen.Readdir(-1), the directories among the entries: file.Name()
\* for every file with file.IsDir()
Readdir(folder, t) ==
  SelectSeq(t.order, LAMBDA name : JoinPath(folder, name) \in t.dirs)

\* The names skipped, without node_modules.
SkippedOnlyVendor(name) == name = "vendor"

\* the names ScanGitFolders does not descend into
Skipped(name) == name = "vendor" \/ name = "node_modules"

\* ScanGitFolders(folders, folder) on the tree t: [fatal, folders], fatal
\* when log.Fatal ended the process, folders the slice as grown by then
\* (every path appended has been printed).  ScanFiles is its loop over the
\* entries files of folder, from the result r so far.
RECURSIVE ScanGitFolders(_, _, _)
RECURSIVE ScanFiles(_, _, _, _)
ScanFiles(r, folder, files, t) ==
  IF files = <<>> \/ r.fatal THEN r
  ELSE LET name == Head(files)
           path == JoinPath(folder, name)
       IN  IF name = GitName
             THEN ScanFiles([r EXCEPT !.folders = Append(@, Dir(path))],
                            folder, Tail(files), t)
           ELSE IF Skipped(name)
             THEN ScanFiles(r, folder, Tail(files), t)
           ELSE ScanFiles(ScanGitFolders(r.folders, path, t),
                          folder, Tail(files), t)

ScanGitFolders(fs, folder, t) ==
  IF folder \in t.unreadable
    THEN [fatal |-> TRUE, folders |-> fs]
    ELSE ScanFiles([fatal |-> FALSE, folders |-> fs], folder,
                   Readdir(folder, t), t)

InitScan ==
  /\ tree \in Trees
  /\ folders \in Existing
  /\ ret = None
  /\ zone = FixedZone
  /\ calls = None
  /\ file = None
  /\ scanner = None
  /\ lines = None
  /\ pc = "Walk"
  /\ now = Clock(FirstDay, 0)
  /\ showCommitCount = FALSE
  /\ showDaysOfMonth = FALSE
  /\ grid = None
  /\ email = ""
  /\ selfFlag = FALSE
  /\ repo = InvalidRepo
  /\ directory = WorkDir
  /\ n = 0
  /\ cur = None
  /\ daysAgo = None
  /\ commits = NilMap
  /\ err = FALSE
  /\ params = None
  /\ out = None
  /\ errMsg = None
  /\ header = None
  /\ console = NoOutput
  /\ exit = None
  /\ dotfile = None
  /\ ri = 0

\* what ScanGitFolders printed: the paths it appended
Found(before, after) == SubSeq(after, Len(before) + 1, Len(after))

\* ScanGitFolders(folders, folder) returns.
ScanReturns ==
  /\ pc = "Walk"
  /\ LET r == ScanGitFolders(folders, <<>>, tree)
     IN  /\ ~r.fatal
         /\ folders' = r.folders
         /\ console' = [console EXCEPT !.stdout = @ \o Found(folders, r.folders)]
  /\ pc' = "walked"
  /\ UNCHANGED <<zone, ret, calls, tree, fsvars, selfFlag, exit, now, email,
                 showCommitCount, showDaysOfMonth, repo, directory, n,
                 cur, daysAgo, commits, err, grid, params, out, errMsg,
                 header, dotfile, ri>>

\* A directory cannot be opened or read: log.Fatal ends the process with
\* status 1, after the paths found before it were printed.
ScanFatal ==
  /\ pc = "Walk"
  /\ LET r == ScanGitFolders(folders, <<>>, tree)
     IN  /\ r.fatal
         /\ console' = [console EXCEPT !.stdout = @ \o Found(folders, r.folders)]
  /\ exit' = <<1>>
  /\ pc' = "exited"
  /\ UNCHANGED <<zone, ret, scanvars, fsvars, selfFlag, now, email,
                 showCommitCount, showDaysOfMonth, repo, directory, n,
                 cur, daysAgo, commits, err, grid, params, out, errMsg,
                 header, dotfile, ri>>

NextScan == ScanReturns \/ ScanFatal

SpecScan == InitScan /\ [][NextScan]_vars

----------------------------------------------------------------------------
(* Properties of the grid and of the rendered graph.                       *)

\* the run printed the graph
Rendered == pc = "done" /\ ~err

\* the positions <<row, place>> of the cells printed
Cells == {<<r, p>> : r \in 1..Len(out), p \in 1..(params.maxWeek + 1)}

\* the positions of the cells printed in the today style
TodayCells == {x \in Cells : out[x[1]][x[2]].escape = EscapeToday}

\* C1: for every current date the grid builder places the cell of today
\* (day bucket key 0) at week index 0, dayOfWeek = CalculateWeekdayOffset(),
\* and calculateGraphParameters returns todayWeek = 0.
C1_TodayCellAtWeekZero ==
  Rendered =>
    /\ params.todayWeek = 0
    /\ 0 \in DOMAIN commits =>
         /\ 0 \in DOMAIN grid
         /\ grid[0][CalculateWeekdayOffset(now)] = commits[0]

\* C2: for every current date and every count map with keys in 0 .. 183,
\* every week index BuildCols stores lies in 0 .. 26 (none negative, none
\* above 26).
C2_WeekIndexInRange ==
  (Rendered /\ DOMAIN commits \subseteq 0..DaysInLastSixMonths) =>
    DOMAIN grid \subseteq 0..WeeksInLastSixMonths

\* C3: in every rendered graph exactly one cell is printed in the today
\* style, and it is the cell whose cell date is the current calendar date.
C3_ExactlyOneTodayCell ==
  Rendered =>
    /\ Cardinality(TodayCells) = 1
    /\ \A x \in TodayCells : out[x[1]][x[2]].date = now.day

\* C8: three commits of today by u@x.com and one 400 days old, filtered by
\* u@x.com: bucket 0 holds 3 and every other bucket 0; the graph shows 3 in
\* the today cell and 0 in every other cell.
C8_ScenarioTodayCellShowsThree ==
  (Rendered /\ repo = ScenarioRepo(now) /\ email = "u@x.com") =>
    /\ 0 \in DOMAIN commits /\ commits[0] = 3
    /\ \A k \in DOMAIN commits : k /= 0 => commits[k] = 0
    /\ \E x \in Cells :
         /\ out[x[1]][x[2]].today
         /\ out[x[1]][x[2]].val = 3
         /\ \A y \in Cells : y /= x => out[y[1]][y[2]].val = 0

----------------------------------------------------------------------------
(* Properties of the aggregation.                                          *)

\* the step is a call of the ForEach callback
CallbackStep == n' = n + 1

\* m2 is m with exactly one key incremented by one
OneMore(m, m2) ==
  \E k \in DOMAIN m2 : m2 = MapPut(m, k, MapGet(m, k) + 1)

\* C4: whatever the commits, every key of the count map lies in 0 .. 183;
\* a commit either increments exactly one key by one or is discarded, and
\* a commit dated before the 183-day window increments no key.
C4_KeysWithinWindow ==
  [][CallbackStep =>
       /\ DOMAIN commits' \subseteq 0..DaysInLastSixMonths
       /\ commits' = commits \/ OneMore(commits, commits')
       /\ Age(cur'[1], now) > DaysInLastSixMonths => commits' = commits]_vars

----------------------------------------------------------------------------
(* Properties of the calendar clock.                                       *)

\* CountDaysSinceDate has returned for the date in cur
Returned == pc = "returned"

\* C5: for a timestamp whose calendar date is n days before today's,
\* 0 <= n <= 183, CountDaysSinceDate returns n, whatever its time of day
\* and whatever the UTC offset of its location; for today it returns 0.
C5_DaysSinceIsCalendarDistance ==
  (Returned /\ Age(cur[1], now) \in 0..DaysInLastSixMonths) =>
    daysAgo[1] = Age(cur[1], now)

\* C6: CountDaysSinceDate returns OutOfRange for every date more than 183
\* days before today and never for a date 183 days or fewer before today.
C6_OutOfRangeBeyondWindow ==
  Returned =>
    (daysAgo[1] = OutOfRange <=> Age(cur[1], now) > DaysInLastSixMonths)

\* C7: for a date n days after today, n >= 1, CountDaysSinceDate returns -n.
C7_FutureDatesAreNegative ==
  (Returned /\ Age(cur[1], now) <= -1) => daysAgo[1] = Age(cur[1], now)

----------------------------------------------------------------------------
(* Properties of the legacy aggregation over several repositories.         *)

\* how many commits of repository r the filter lets through to bucket k
Contribution(r, k) ==
  Cardinality({p \in 1..Len(r.log) :
                 /\ r.log[p].email = email
                 /\ LegacyCountDaysSinceDate(r.log[p].when, now)
                      + LegacyCalculateWeekdayOffset(now) = k})

RECURSIVE SumOver(_, _, _)
SumOver(paths, from, k) ==
  IF from > Len(paths) THEN 0
  ELSE Contribution(paths[from], k) + SumOver(paths, from + 1, k)

\* the dotfile's repositories in the opposite order
Reversed == [j \in 1..Len(dotfile) |-> dotfile[Len(dotfile) + 1 - j]]

\* the legacy ProcessRepositories has returned
LegacyDone == ri > 0 /\ pc \in {"Print", "done", "panic"}

\* C10: when several repositories are aggregated the count map is the
\* bucket-wise sum of what each repository contributes, and aggregating
\* them in the opposite order yields the same count map.
C10_AggregationIsBucketwiseSum ==
  LegacyDone =>
    /\ ~err => \A k \in DOMAIN commits :
                 commits[k] = MapGet(InitialCommits, k) + SumOver(dotfile, 1, k)
    /\ ~err => \A k \in 0..(DaysInLastSixMonths + DaysInWeek) :
                 SumOver(dotfile, 1, k) > 0 => k \in DOMAIN commits
    /\ LET other == LegacyProcessRepositories(email, Reversed, now)
       IN  other.commits = commits /\ other.err = err

\* C10, witness: two different repositories were aggregated and some bucket
\* holds one commit of each.
C10_Witness ==
  /\ LegacyDone /\ ~err
  /\ Len(dotfile) = 2 /\ dotfile[1] /= dotfile[2]
  /\ \E k \in DOMAIN commits :
       /\ Contribution(dotfile[1], k) = 1
       /\ Contribution(dotfile[2], k) = 1
       /\ commits[k] = 2

----------------------------------------------------------------------------
(* Properties of the map ProcessRepositories returns.                      *)

\* ProcessRepositories has returned (commits, nil)
Returns == pc = "Print" \/ Rendered

\* C11: every count map a successful ProcessRepositories returns contains
\* every key in 1 .. 183, holds only non-negative counts, and a bucket k of
\* 0 .. 183 is created or grows only on a counted commit dated k days back:
\* key 0 is there only if a counted commit is dated today, and a day on
\* which no commit fell keeps the value 0.
C11_ReturnedMapShape ==
  /\ [](Returns =>
          /\ 1..DaysInLastSixMonths \subseteq DOMAIN commits
          /\ \A k \in DOMAIN commits : commits[k] >= 0)
  /\ [][CallbackStep =>
          \A k \in 0..DaysInLastSixMonths :
            MapGet(commits', k) /= MapGet(commits, k) \/
            (k \in DOMAIN commits' /\ k \notin DOMAIN commits)
              => Age(cur'[1], now) = k]_vars

----------------------------------------------------------------------------
(* Properties of the error path.                                           *)

\* the pieces of an error's text
Pieces(msg) == {msg[j] : j \in 1..Len(msg)}

\* C12: if the directory cannot be opened as a repository or its HEAD cannot
\* be resolved, Stats returns a non-nil error whose text names the
\* directory, and the renderer is never invoked: no header group and no
\* cell is printed.
C12_OpenErrorAbortsRun ==
  ~repo.valid =>
    /\ pc \in {"Stats", "done"}
    /\ header = None /\ out = None /\ grid = None
    /\ pc = "done" => err /\ errMsg /= None /\ directory \in Pieces(errMsg)

\* C12, witness: Stats has returned the error of a HEAD that does not
\* resolve, for the directory /tmp/empty.
C12_Witness ==
  /\ pc = "done" /\ err
  /\ ~repo.valid
  /\ directory = "/tmp/empty"
  /\ HeadError[1] \in Pieces(errMsg)
  /\ header = None /\ out = None

----------------------------------------------------------------------------
(* Properties of the stats command.                                        *)

\* the process has ended
Exited == pc = "exited"

\* the run printed the graph
GraphPrinted == header /= None /\ out /= None

\* C13: every run of the stats command that hits a usage error or an
\* aggregation error ends with a non-zero exit status after writing its
\* message to standard error; only runs that printed the graph exit with
\* status zero.
C13_ErrorsExitNonZero ==
  Exited =>
    /\ ~GraphPrinted => exit[1] /= 0 /\ console.stderr /= <<>>
    /\ exit[1] = 0 => GraphPrinted

\* C14: whenever both showCommitCount and showDaysOfMonth are requested an
\* error is reported and no graph cell is printed, and it is the renderer
\* itself that refuses: Stats called with both toggles true prints nothing.
C14_RendererRefusesBothToggles ==
  (showCommitCount /\ showDaysOfMonth /\ pc = "done") =>
    /\ err
    /\ header = None /\ out = None

----------------------------------------------------------------------------
(* Properties of the renderer called on a grid.                            *)

\* PrintCells has returned
Printed == pc = "returned" /\ out /= None

\* the cell printed at position x = <<row, place>>
CellAt(x) == out[x[1]][x[2]]

\* C15: PrintCell chooses the style from the count alone: 0 the neutral
\* style, 1 .. 4 the light one, 5 .. 9 the medium one, 10 or more the high
\* one; on the cell of today the today style is used instead, whatever the
\* count.
C15_StyleBuckets ==
  Printed =>
    \A x \in Cells :
      LET c == CellAt(x)
      IN  /\ c.val >= 0
          /\ c.escape = IF c.today THEN EscapeToday
                        ELSE IF c.val = 0 THEN EscapeNone
                        ELSE IF c.val \in 1..4 THEN EscapeLight
                        ELSE IF c.val \in 5..9 THEN EscapeMedium
                        ELSE EscapeHigh

\* C15, witness: a graph was printed with a cell of count 4 in the light
\* style and the cell of today, holding no commit, in the today style.
C15_Witness ==
  /\ Printed
  /\ \E x \in Cells : CellAt(x).val = 4 /\ CellAt(x).escape = EscapeLight
  /\ \E x \in Cells : CellAt(x).val = 0 /\ CellAt(x).escape = EscapeToday

\* the calendar date of the cell at position x: the day of its row in the
\* week of its column, counted from today's cell
OwnDate(x) ==
  LET weekNum == params.maxWeek + 1 - x[2]
      dayNum  == x[1] - 1
  IN  now.day - DaysInWeek * (weekNum - params.todayWeek) + (dayNum - Weekday(now))

\* a number as a cell shows it
Padded(k) == IF k < 10 THEN " " \o ToString(k) \o " " ELSE ToString(k) \o " "

\* C16: with neither toggle every cell is blank; with showCommitCount a
\* cell with count > 0 shows that count (7 prints " 7 ") and a cell with
\* count 0 stays blank; with showDaysOfMonth every cell, zero-count ones
\* included, shows the day of the month of its own calendar date.
C16_CellContent ==
  (Printed /\ ~(showCommitCount /\ showDaysOfMonth)) =>
    \A x \in Cells :
      LET c == CellAt(x)
      IN  /\ (~showCommitCount /\ ~showDaysOfMonth) => c.content = "   "
          /\ showCommitCount =>
               /\ c.val > 0 => c.content = Padded(c.val)
               /\ c.val = 7 => c.content = " 7 "
               /\ c.val = 0 => c.content = "   "
          /\ showDaysOfMonth =>
               /\ c.date = OwnDate(x)
               /\ c.content = Padded(DayOfMonth(Clock(OwnDate(x), 0)))

\* C16, witness: with showCommitCount alone a graph was printed that holds
\* a cell of count 7 showing " 7 " and blank cells of count 0.
C16_Witness ==
  /\ Printed /\ showCommitCount /\ ~showDaysOfMonth
  /\ \E x \in Cells : CellAt(x).val = 7 /\ CellAt(x).content = " 7 "
  /\ \E x \in Cells : CellAt(x).val = 0 /\ CellAt(x).content = "   "

\* the dates of week w that are the 1st of a month
FirstsIn(w) ==
  {d \in {OwnDate(<<r, params.maxWeek + 1 - w>>) : r \in 1..DaysInWeek} :
     DayOfMonth(Clock(d, 0)) = 1}

\* the column at which group i of the header starts
RECURSIVE HeaderOffset(_)
HeaderOffset(i) == IF i = 1 THEN 0 ELSE HeaderOffset(i - 1) + Len(header[i - 1])

\* the column at which the cell of week w starts in the rows: after the day
\* label and the cells of the older weeks, each its content and a "|"
CellOffset(w) ==
  Len(PrintDayCol(0)) + (params.maxWeek - w) * (Len(out[1][1].content) + Len("|"))

\* what the header shows above the cell of week w: the group that starts at
\* the cell's column, blank where no group starts there
HeaderOver(w) ==
  LET at == {i \in 2..Len(header) : HeaderOffset(i) = CellOffset(w)}
  IN  IF at = {} THEN "    " ELSE header[CHOOSE i \in at : TRUE]

\* C17: in the month header, for every week index from maxWeek down to 0,
\* the 3-letter abbreviation of a month is printed for that week's column if
\* and only if one of the week's seven dates is the 1st of that month; every
\* other column gets a blank group of 4 spaces, and a blank group ends the
\* header.
C17_MonthHeader ==
  Printed =>
    /\ \A w \in 0..params.maxWeek :
         IF FirstsIn(w) = {}
           THEN HeaderOver(w) = "    "
           ELSE \A d \in FirstsIn(w) :
                  HeaderOver(w) = MonthAbbrev(Month(Clock(d, 0))) \o " "
    /\ header[Len(header)] = "    "

\* the larger of two numbers
Larger(a, b) == IF a >= b THEN a ELSE b

\* the highest week index of the grid, below every index if it is empty
Highest == IF DOMAIN grid = {} THEN -1 ELSE MaxOf(DOMAIN grid)

\* the count the grid holds for week w, day d
CountIn(w, d) == IF w \in DOMAIN grid THEN grid[w][d] ELSE 0

\* C18: for any grid, the empty one included, calculateGraphParameters
\* returns maxWeek = max(26, highest week index of the grid), and each of
\* the 7 day rows prints exactly maxWeek + 1 cells, at least 27, in strictly
\* descending week index: the oldest week leftmost, week 0 rightmost.
C18_MaxWeekAndRowLength ==
  Printed =>
    /\ params.maxWeek = Larger(WeeksInLastSixMonths, Highest)
    /\ Len(out) = DaysInWeek
    /\ \A r \in 1..Len(out) :
         /\ Len(out[r]) = params.maxWeek + 1
         /\ Len(out[r]) >= WeeksInLastSixMonths + 1
         /\ \A p \in 1..Len(out[r]) :
              out[r][p].val = CountIn(params.maxWeek + 1 - p, r - 1)
         /\ \A p \in 1..(Len(out[r]) - 1) :
              out[r][p + 1].date = out[r][p].date + DaysInWeek

\* C18, witness: the empty grid was printed, as 7 rows of 27 cells.
C18_Witness ==
  /\ Printed
  /\ grid = <<>>
  /\ params.maxWeek = WeeksInLastSixMonths
  /\ Len(out) = DaysInWeek /\ Len(out[1]) = WeeksInLastSixMonths + 1

\* C19: with an empty repository path list the default invocation
\* aggregates to a count map that is 0 for all 183 days and then renders a
\* complete all-empty graph, the month header and 7 day rows with every
\* cell of count 0, without returning an error.
C19_EmptyPathListRendersEmptyGraph ==
  dotfile = <<>> =>
    /\ pc /= "panic"
    /\ ~err
    /\ pc \in {"Print", "done"} =>
         /\ DOMAIN commits = 1..DaysInLastSixMonths
         /\ \A k \in DOMAIN commits : commits[k] = 0
    /\ pc = "done" =>
         /\ Len(header) > 1
         /\ Len(out) = DaysInWeek
         /\ \A r \in 1..Len(out) :
              /\ Len(out[r]) >= WeeksInLastSixMonths + 1
              /\ \A p \in 1..Len(out[r]) : out[r][p].val = 0

\* the positions right after which a line of the file ends: every line
\* feed, and the last byte if the file does not end in a line feed
LineEnds(content) ==
  {i \in 1..Len(content) : content[i] = LF \/ i = Len(content)}

\* the end of the k-th line
LineEnd(content, k) ==
  CHOOSE e \in LineEnds(content) :
    Cardinality({x \in LineEnds(content) : x < e}) = k - 1

\* the text of the k-th line of a file, without its line terminator (a line
\* feed, with a carriage return before it or not)
LineText(content, k) ==
  LET from == IF k = 1 THEN 1 ELSE LineEnd(content, k - 1) + 1
      to   == LineEnd(content, k)
      body == SubSeq(content, from, IF content[to] = LF THEN to - 1 ELSE to)
  IN  IF body /= <<>> /\ body[Len(body)] = CR
        THEN SubSeq(body, 1, Len(body) - 1)
        ELSE body

\* the lines of a file, in file order
FileLines(content) ==
  [k \in 1..Cardinality(LineEnds(content)) |-> LineText(content, k)]

\* C20: reading the path-list file never fails the run: ParseFileLines
\* always returns, with an empty list when the file does not exist, is empty
\* or cannot be opened, and otherwise with the lines of the file in file
\* order, one element per line.
C20_ParseFileLinesNeverFails ==
  /\ [](pc \in {"Parse", "Scan", "parsed",
             "Add", "Walk", "walked", "began", "again",
             "Cells"})
  /\ [](pc = "parsed" =>
          IF file.exists /\ file.openable
            THEN /\ lines.elems = FileLines(file.content)
                 /\ file.content = <<>> => lines.elems = <<>>
            ELSE lines.elems = <<>>)
  /\ [][(pc = "Parse" /\ ~(file.exists /\ file.openable)) =>
          (pc' = "parsed" /\ lines'.elems = <<>>)]_vars
  /\ [][(pc = "Scan" /\ pc' = "Scan") =>
          \E k \in 1..Len(file.content) :
            /\ Len(lines'.elems) = k
            /\ lines' = AppendSlice(lines, LineText(file.content, k))]_vars

\* C20, witness: a file that exists and cannot be opened, though it holds
\* two lines, was read as the empty list.
C20_Witness ==
  /\ pc = "parsed"
  /\ file.exists /\ ~file.openable
  /\ Cardinality(LineEnds(file.content)) = 2
  /\ lines.elems = <<>>

----------------------------------------------------------------------------
(* Properties of the path-list file under the commands.                    *)

\* C21: a stats run, aggregation and rendering, leaves the persisted
\* repository-path file as it found it: no step of the run changes whether
\* the file exists or what it holds, also when the file did not exist.
C21_RunLeavesPathFileAlone == [][file' = file]_vars

\* every path of every call so far, in the order they were passed
RECURSIVE Flatten(_)
Flatten(ss) == IF ss = <<>> THEN <<>> ELSE Head(ss) \o Flatten(Tail(ss))

\* the elements of a sequence at their first occurrence, in order
FirstOccurrences(seq) ==
  LET keep  == {i \in 1..Len(seq) : \A j \in 1..(i - 1) : seq[j] /= seq[i]}
      at(k) == CHOOSE i \in keep : Cardinality({x \in keep : x < i}) = k - 1
  IN  [k \in 1..Cardinality(keep) |-> seq[at(k)]]

\* C22: from an absent or empty path-list file, after any sequence of
\* AddElementsToFile calls the file holds every path ever added exactly
\* once, one per line, in the order of first addition; a call that adds
\* only paths already in the file leaves the file unchanged.
C22_FileHoldsEveryPathOnce ==
  /\ [](calls /= <<>> =>
          /\ file.exists
          /\ FileLines(file.content) = FirstOccurrences(Flatten(calls)))
  /\ [][LET newRepos == calls'[Len(calls')]
            held     == FileLines(file.content)
        IN  /\ \A i \in 1..Len(held) : FileLines(file'.content)[i] = held[i]
            /\ (/\ newRepos /= <<>>
                /\ \A i \in 1..Len(newRepos) :
                     \E j \in 1..Len(held) : held[j] = newRepos[i])
               => file' = file]_vars

\* C22, witness: the calls added three different paths, one of them in
\* two calls, and the file lists three lines.
C22_Witness ==
  /\ Len(calls) = MaxCalls
  /\ \E i \in 1..Len(calls[1]), j \in 1..Len(calls[2]) : calls[1][i] = calls[2][j]
  /\ Cardinality(LineEnds(file.content)) = 3
  /\ Len(FirstOccurrences(Flatten(calls))) = 3

----------------------------------------------------------------------------
(* Properties of the scanner.                                              *)

\* the repositories of a tree: the directories that directly contain a
\* .git directory and are reached from the folder scanned without passing
\* through a directory named vendor, node_modules or .git
Repositories(t) ==
  {d \in t.dirs \cup {<<>>} :
     /\ JoinPath(d, GitName) \in t.dirs
     /\ \A i \in 1..Len(d) : d[i] \notin {"vendor", "node_modules", GitName}}

\* C23: ScanGitFolders(existing, root) returns the existing entries
\* unchanged and in order, followed by exactly the directories under root
\* that directly contain a .git directory, each once, none of them named
\* vendor or node_modules or lying below such a directory or below .git;
\* repositories nested below another repository's root are among them.
C23_ScanFindsRepositories ==
  [][pc' = "walked" =>
       LET found == Found(folders, folders')
       IN  /\ Len(folders') >= Len(folders)
           /\ SubSeq(folders', 1, Len(folders)) = folders
           /\ {found[i] : i \in 1..Len(found)} = Repositories(tree)
           /\ Len(found) = Cardinality(Repositories(tree))
           /\ \A i \in 1..Len(found) : \A j \in 1..Len(found[i]) :
                found[i][j] \notin {"vendor", "node_modules", GitName}
           /\ \A d \in tree.dirs :
                (/\ JoinPath(d, GitName) \in tree.dirs
                 /\ \A j \in 1..Len(d) : d[j] \in {"a", "b"})
                => \E i \in 1..Len(found) : found[i] = d]_vars

\* C23, witness: a scan returned with the folder scanned, a repository
\* nested two levels below it and the existing entry, on a tree that also
\* has .git directories below vendor and node_modules.
C23_Witness ==
  /\ pc = "walked"
  /\ <<"vendor", GitName>> \in tree.dirs
  /\ <<"node_modules", "a", GitName>> \in tree.dirs
  /\ \E i, j, k \in 1..Len(folders) :
       /\ folders[i] = <<"existing", "folder">>
       /\ folders[j] = <<>>
       /\ folders[k] = <<"a", "a">>
  /\ Len(folders) = Cardinality(Repositories(tree)) + 1

----------------------------------------------------------------------------
(* Properties of GetBeginningOfDay and CalculateWeekdayOffset.             *)

WeekdayOffsetOfPart003 ==
  Rendered =>
    /\ CalculateWeekdayOffset(now) \in 0..6
    /\ CalculateWeekdayOffset(now) = Weekday(now)
    /\ \A x \in TodayCells : x[1] - 1 = CalculateWeekdayOffset(now)

\* C25: CalculateWeekdayOffset returns a value in 0 .. 6, the weekday of
\* today with Sunday = 0, Monday = 1, ..., Saturday = 6, and that value is
\* the index of the row in which the renderer marks the cell of today
\* (here for the CalculateWeekdayOffset and PrintCells of pkg/stats/stats.go,
\* whose rows are printed from index 6 down to 0).
C25_WeekdayOffsetIsSundayZero ==
  (pc \in {"done", "panic"} /\ header /= None) =>
    /\ LegacyCalculateWeekdayOffset(now) \in 0..6
    /\ LegacyCalculateWeekdayOffset(now) = Weekday(now)
    /\ \A r \in 1..Len(out) : \A p \in 1..Len(out[r]) :
         out[r][p].today => DaysInWeek - r = LegacyCalculateWeekdayOffset(now)

----------------------------------------------------------------------------
(* Properties of BuildCols on a count map.                                 *)

\* the date of bucket key k under today's midnight
KeyDate(k, today) == AddDate(today, 0, -k)

\* the cell <<week, dayOfWeek>> BuildCols adds the count of key k to
KeyCell(k, today, startOfFirstWeek) ==
  <<WeekOf(KeyDate(k, today), startOfFirstWeek), Weekday(KeyDate(k, today))>>

\* the keys of the count map inside the display window: those whose date
\* is not before startDate
WindowKeys ==
  LET today     == GetBeginningOfDay(now)
      startDate == StartDate(now)
  IN  {k \in DOMAIN commits : ~Before(KeyDate(k, today), startDate)}

\* the pairs <<k, cell>> of the keys inside the window
Placed ==
  LET today == GetBeginningOfDay(now)
      start == StartOfFirstWeek(now)
  IN  {<<k, KeyCell(k, today, start)>> : k \in WindowKeys}

\* the sum of f[lo] .. f[hi]
RECURSIVE SumRange(_, _, _)
SumRange(f, lo, hi) ==
  IF lo > hi THEN 0
  ELSE IF lo = hi THEN f[lo]
  ELSE LET mid == (lo + hi) \div 2
       IN  SumRange(f, lo, mid) + SumRange(f, mid + 1, hi)

\* the sum of the counts of the keys inside the window, and of all cells
WindowSum ==
  LET keys == WindowKeys
  IN  SumRange([k \in (-1)..MaxDenseKey |->
                  IF k \in keys THEN commits[k] ELSE 0], -1, MaxDenseKey)
GridSum ==
  IF DOMAIN grid = {} THEN 0
  ELSE LET lo == MinOf(DOMAIN grid)
           hi == MaxOf(DOMAIN grid)
       IN  SumRange([i \in 0..((hi - lo + 1) * DaysInWeek - 1) |->
                       CountIn(lo + i \div DaysInWeek, i % DaysInWeek)],
                    0, (hi - lo + 1) * DaysInWeek - 1)

\* C26: BuildCols maps bucket keys to cells one to one: every key whose
\* date today - k is not before startDate puts its count into exactly one
\* cell, in the row of the weekday of that date; no two keys share a cell;
\* the keys before startDate and the cells no key lands in hold nothing;
\* so the cells add up to the counts of the keys inside the window.
C26_KeysToCellsOneToOne ==
  (pc = "done" /\ grid /= None) =>
    LET placed == Placed
        hit    == {x[2] : x \in placed}
    IN  /\ \A x \in placed :
             /\ x[2][1] \in DOMAIN grid
             /\ grid[x[2][1]][x[2][2]] = commits[x[1]]
        /\ Cardinality(hit) = Cardinality(placed)
        /\ \A w \in DOMAIN grid : \A d \in 0..(DaysInWeek - 1) :
             <<w, d>> \notin hit => grid[w][d] = 0
        /\ GridSum = WindowSum

\* C27: the renderer and the grid builder agree on the date of a cell: for
\* every cell (week w, day d) that BuildCols filled from bucket key k, the
\* date printWeekRow computes for (w, d), which is the date whose day of
\* the month the cell shows, is today minus k days.
C27_CellDateIsKeyDate ==
  (pc = "done" /\ grid /= None) =>
    \A x \in Placed :
      LET w        == x[2][1]
          d        == x[2][2]
          keyDate  == KeyDate(x[1], GetBeginningOfDay(now))
          cellDate == AddDate(params.startOfFirstWeek, 0,
                              (WeeksInLastSixMonths - w) * 7 + d)
      IN  /\ cellDate.day = keyDate.day
          /\ w \in 0..params.maxWeek =>
               out[d + 1][params.maxWeek + 1 - w].date = keyDate.day

----------------------------------------------------------------------------
(* Properties of a run during which midnight passes.                       *)

\* the calendar day the run started on: the day of the first commit of the
\* log, which is a commit of that day
StartDay == repo.log[1].when.day

\* C28: within one run every computation that depends on the current date
\* uses the same calendar date, the one of the start of the run, even when
\* the wall clock passes midnight between aggregation and rendering: week
\* and weekday of today are those of that date, and the commits counted in
\* bucket 0 are drawn in the one cell styled as today, which stands for
\* that date.
C28_OneDatePerRun ==
  Rendered =>
    /\ params = calculateGraphParameters(grid, Clock(StartDay, 23))
    /\ header = PrintMonths(Clock(StartDay, 23))
    /\ grid = BuildCols(SortMapIntoSlice(commits), commits, Clock(StartDay, 23))
    /\ (0 \in DOMAIN commits /\ commits[0] > 0) =>
         /\ Cardinality(TodayCells) = 1
         /\ \A x \in TodayCells :
              /\ out[x[1]][x[2]].val = commits[0]
              /\ out[x[1]][x[2]].date = StartDay

----------------------------------------------------------------------------
(* Column accesses of the renderer.                                        *)

\* C29: rendering never panics: for every count map the aggregation
\* returns and on every weekday PrintCommitsStats runs to completion, all 7
\* rows printed, and a column is read only at a position below its length.
C29_RenderingNeverPanics ==
  (pc \in {"done", "panic"} /\ header /= None) =>
    /\ pc = "done"
    /\ Len(out) = DaysInWeek
    /\ 0 \in DOMAIN grid =>
         LegacyCalculateWeekdayOffset(now) - 1 < Cardinality(DOMAIN grid[0])

----------------------------------------------------------------------------
(* Width of the printed cells.                                             *)

\* C30: every printed cell has the same width: the content PrintCell
\* prints is exactly 3 characters for every count, counts of 100 or more
\* included, and for every day of the month, under every combination of
\* the toggles, so that the 7 day rows have equal printed length.
C30_CellsAreThreeWide ==
  (pc = "returned" /\ out /= None) =>
    /\ \A r \in 1..Len(out) : \A p \in 1..Len(out[r]) :
         Len(out[r][p].content) = 3
    /\ \A r \in 1..Len(out) : Len(out[r]) = Len(out[1])

====
